---- MODULE Spec2Model ----
(***************************************************************************)
(* A model of the watchdog service: the periodic scheduler                 *)
(* (internal/scheduler), the retrying HTTP transport (api.DoWithRetry) and *)
(* the notification cooldown logic of the two tasks (tasks/), the webhook  *)
(* notifier and the start-up of the application (cmd/root.go).             *)
(*                                                                         *)
(* The specifications share the variables; each drives one component      *)
(* and leaves the others in their constructed state:                       *)
(*   SchedSpec   - Scheduler.ScheduleTask / Start / Stop and the loops     *)
(*   TimingSpec  - the same, with prompt goroutines and short Run()s       *)
(*   RetrySpec   - one call of DoWithRetry                                 *)
(*   TaskSpec    - sequential ticks of PRReviewCheckTask.Run or of         *)
(*                 TelnyxBalanceCheckTask.Run                              *)
(*   OverlapSpec - two overlapping invocations of PRReviewCheckTask.Run    *)
(*   KeySpec     - the dedup key of two entities                           *)
(*   ConfigSpec  - runApp on a configuration                               *)
(*   HookSpec    - one call of WebhookNotifier.SendNotification            *)
(*   WaitSpec    - one call of DoWithRetry or of SendNotification          *)
(*   BudgetSpec  - ticks of TelnyxBalanceCheckTask.Run with its deadline   *)
(*   LiveSpec    - SchedSpec with Run()s that return and a fair select     *)
(*   SweepSpec   - ticks of PRReviewCheckTask.Run that continue            *)
(*   MutexSpec   - two invocations of PRReviewCheckTask.Run with the mutex *)
(* Time is an integer clock `now`; durations are scaled to small integers. *)
(***************************************************************************)
EXTENDS Integers, Sequences, FiniteSets, TLC

VARIABLES
    now,        \* wall clock (time.Now), in abstract time units
    \* ---- scheduler ----
    tasks,      \* Scheduler.tasks: sequence of bindings [interval]
    started,    \* Start() has been called
    loop,       \* per binding: position of its goroutine
    tickC,      \* per binding: number of ticks buffered in ticker.C (0 or 1)
    nextFire,   \* per binding: instant of the ticker's next fire
    inRun,      \* per binding: number of Run() invocations in progress
    runCount,   \* per binding: number of Run() invocations begun
    lastErr,    \* per binding: result of the most recent completed Run()
    missed,     \* per binding: ticker fires since the Run() in progress began
                \* (observation; 2 stands for two or more, 0 when none runs)
    stopper,    \* the caller of Stop(): its position in the range loop, and
                \* what is observed of the call (afterStart, late)
    \* ---- DoWithRetry ----
    retry,      \* the call's locals, its context and its observations
    \* ---- tasks ----
    cfg,        \* which task is configured, its cooldown, its repositories
    lastNotificationTime, \* PRReviewCheckTask.lastNotificationTime (map)
    prRun,      \* the PR task's Run() invocation: position and locals
    telnyx,     \* TelnyxBalanceCheckTask fields and its Run() position
    hist,       \* observations of the sink (history, not program state)
    prRun2,     \* a second invocation of the PR task's Run() on the same
                \* instance, overlapping the first
    ids,        \* two entities and the dedup keys built for them
    \* ---- application ----
    app,        \* runApp: its position, the configured durations
    hook,       \* one call of WebhookNotifier.SendNotification
    runCtx,     \* the context of the Telnyx task's Run(): its deadline
    mu          \* PRReviewCheckTask.mu: its holder, and what each invocation
                \* of Run() last read from the map under it

schedVars == <<tasks, started, loop, tickC, nextFire, inRun, runCount, lastErr, missed, stopper>>
retryVars == <<retry>>
taskVars  == <<cfg, lastNotificationTime, prRun, telnyx, hist, prRun2, ids>>
appVars   == <<app, hook, runCtx, mu>>
vars      == <<now, schedVars, retryVars, taskVars, appVars>>

(***************************************************************************)
(* Bounds of the model.                                                    *)
(***************************************************************************)
\* Bindings registered with the scheduler.
MaxTasks == 2
\* Last instant of the scheduler's clock.
MaxTime == 4
\* Polling intervals offered to ScheduleTask.
Intervals == {1, 2}
\* Last instant of an observation of a started scheduler.
MaxObserve == 5

----------------------------------------------------------------------------
(***************************************************************************)
(* Scheduler                                                               *)
(***************************************************************************)
TaskIds == 1..Len(tasks)

\* Nobody has called Stop().  A caller of Stop() is at binding idx of the n
\* it ranges over; afterStart tells whether Start() had been called when it
\* called, and late whether a Run() has begun since such a call.
NoStop == [pc |-> "idle", idx |-> 0, n |-> 0, afterStart |-> FALSE, late |-> FALSE]

\* NewScheduler(): no bindings, nothing started.
SchedIdle ==
    /\ tasks = <<>>
    /\ started = FALSE
    /\ loop = <<>>
    /\ tickC = <<>>
    /\ nextFire = <<>>
    /\ inRun = <<>>
    /\ runCount = <<>>
    /\ lastErr = <<>>
    /\ missed = <<>>
    /\ stopper = NoStop

\* A registration that puts the new binding in front of the earlier ones.
ScheduleTaskFirst(interval) ==
    /\ Len(tasks) < MaxTasks
    /\ tasks' = <<[interval |-> interval]>> \o tasks
    /\ loop' = Append(loop, "none")
    /\ tickC' = Append(tickC, 0)
    /\ nextFire' = Append(nextFire, -1)
    /\ inRun' = Append(inRun, 0)
    /\ runCount' = Append(runCount, 0)
    /\ lastErr' = Append(lastErr, "none")
    /\ missed' = Append(missed, 0)
    /\ UNCHANGED <<now, started, stopper, retryVars, appVars, taskVars>>

\* The scheduler's side of ScheduleTask(task, interval): append the
\* binding; no goroutine exists for it unless Start() is called afterwards.
Scheduled(interval) ==
    /\ Len(tasks) < MaxTasks
    /\ tasks' = Append(tasks, [interval |-> interval])
    /\ loop' = Append(loop, "none")
    /\ tickC' = Append(tickC, 0)
    /\ nextFire' = Append(nextFire, -1)
    /\ inRun' = Append(inRun, 0)
    /\ runCount' = Append(runCount, 0)
    /\ lastErr' = Append(lastErr, "none")
    /\ missed' = Append(missed, 0)
    /\ UNCHANGED <<started, stopper>>

\* ScheduleTask(task, interval), called on a scheduler by itself.
ScheduleTask(interval) ==
    /\ Scheduled(interval)
    /\ UNCHANGED <<now, retryVars, appVars, taskVars>>

\* HasTasks(): len(s.tasks) > 0.
HasTasks == Len(tasks) > 0

\* time.NewTicker(task.interval): the period between two fires.
HalfRate(interval) == 2 * interval
TickerPeriod(interval) == interval

\* The scheduler's side of Start(): one goroutine per binding, each with a
\* ticker whose first fire is one interval after its creation.  Start is
\* called once.
Launched ==
    /\ ~started
    /\ started' = TRUE
    /\ loop' = [t \in TaskIds |-> "select"]
    /\ nextFire' = [t \in TaskIds |-> now + TickerPeriod(tasks[t].interval)]
    /\ UNCHANGED <<tasks, tickC, inRun, runCount, lastErr, missed, stopper>>

\* Start(), called on a scheduler by itself.
Start ==
    /\ Launched
    /\ UNCHANGED <<now, retryVars, appVars, taskVars>>

\* A ticker is live from its creation until the goroutine returns
\* (defer ticker.Stop()).
TickerLive(t) == loop[t] \in {"select", "running"}

\* One more fire seen by a Run() in progress.
Missed(m, running) == IF running THEN (IF m < 2 THEN m + 1 ELSE 2) ELSE m

\* A ticker whose channel keeps every tick until it is received.
TickerFireQueues(t) ==
    /\ TickerLive(t)
    /\ nextFire[t] = now
    /\ tickC' = [tickC EXCEPT ![t] = @ + 1]
    /\ nextFire' = [nextFire EXCEPT ![t] = now + TickerPeriod(tasks[t].interval)]
    /\ missed' = [missed EXCEPT ![t] = Missed(@, loop[t] = "running")]
    /\ UNCHANGED <<now, tasks, started, loop, inRun, runCount, lastErr, stopper, retryVars, appVars, taskVars>>

\* The ticker's period elapses: a tick is put in ticker.C, whose buffer
\* holds one tick; a tick that finds the buffer full is dropped.
TickerFire(t) ==
    /\ TickerLive(t)
    /\ nextFire[t] = now
    /\ tickC' = [tickC EXCEPT ![t] = 1]
    /\ nextFire' = [nextFire EXCEPT ![t] = now + TickerPeriod(tasks[t].interval)]
    /\ missed' = [missed EXCEPT ![t] = Missed(@, loop[t] = "running")]
    /\ UNCHANGED <<now, tasks, started, loop, inRun, runCount, lastErr, stopper, retryVars, appVars, taskVars>>

\* Where the goroutine is after it has received a tick: it calls Run()
\* synchronously, so it is inside Run() until Run() returns.
AsyncDispatch == "select"
AfterDispatch == "running"

\* A scheduler that begins a Run() only while no other Run() is in
\* progress.
LoopTickSerial(t) ==
    /\ loop[t] = "select"
    /\ tickC[t] = 1
    /\ \A u \in TaskIds : inRun[u] = 0
    /\ tickC' = [tickC EXCEPT ![t] = 0]
    /\ loop' = [loop EXCEPT ![t] = AfterDispatch]
    /\ inRun' = [inRun EXCEPT ![t] = @ + 1]
    /\ runCount' = [runCount EXCEPT ![t] = @ + 1]
    /\ stopper' = [stopper EXCEPT !.late = @ \/ (stopper.pc # "idle" /\ stopper.afterStart)]
    /\ UNCHANGED <<now, tasks, started, nextFire, lastErr, missed, retryVars, appVars, taskVars>>

\* case <-ticker.C: err := task.task.Run()
LoopTick(t) ==
    /\ loop[t] = "select"
    /\ tickC[t] = 1
    /\ tickC' = [tickC EXCEPT ![t] = 0]
    /\ loop' = [loop EXCEPT ![t] = AfterDispatch]
    /\ inRun' = [inRun EXCEPT ![t] = @ + 1]
    /\ runCount' = [runCount EXCEPT ![t] = @ + 1]
    /\ stopper' = [stopper EXCEPT !.late = @ \/ (stopper.pc # "idle" /\ stopper.afterStart)]
    /\ UNCHANGED <<now, tasks, started, nextFire, lastErr, missed, retryVars, appVars, taskVars>>

\* Where the goroutine goes when Run() has returned: an error is printed
\* and the for loop goes round to the select again.
ExitOnError(err) == IF err = "err" THEN "done" ELSE "select"
AfterRun(err) == "select"

\* Run() returns err ("nil" or "err") after any amount of time.
RunReturn(t, err) ==
    /\ loop[t] = "running"
    /\ inRun' = [inRun EXCEPT ![t] = @ - 1]
    /\ lastErr' = [lastErr EXCEPT ![t] = err]
    /\ loop' = [loop EXCEPT ![t] = AfterRun(err)]
    /\ nextFire' = [nextFire EXCEPT ![t] = IF AfterRun(err) = "done" THEN -1 ELSE @]
    /\ missed' = [missed EXCEPT ![t] = 0]
    /\ UNCHANGED <<now, tasks, started, tickC, runCount, stopper, retryVars, appVars, taskVars>>

\* A Stop() that signals only goroutines that are alive, and returns at
\* once when there is none.
StopCallSkipsDead ==
    /\ stopper.pc \in {"idle", "returned"}
    /\ stopper' = IF \A t \in TaskIds : loop[t] \in {"none", "done"}
                  THEN [pc |-> "returned", idx |-> 0, n |-> Len(tasks),
                        afterStart |-> started, late |-> FALSE]
                  ELSE [pc |-> "sending", idx |-> 1, n |-> Len(tasks),
                        afterStart |-> started, late |-> FALSE]
    /\ UNCHANGED <<now, tasks, started, loop, tickC, nextFire, inRun, runCount, lastErr, missed, retryVars, appVars, taskVars>>

\* Stop() is called: it ranges over the bindings registered at that moment.
StopCall ==
    /\ stopper.pc \in {"idle", "returned"}
    /\ stopper' = IF Len(tasks) = 0
                  THEN [pc |-> "returned", idx |-> 0, n |-> 0,
                        afterStart |-> started, late |-> FALSE]
                  ELSE [pc |-> "sending", idx |-> 1, n |-> Len(tasks),
                        afterStart |-> started, late |-> FALSE]
    /\ UNCHANGED <<now, tasks, started, loop, tickC, nextFire, inRun, runCount, lastErr, missed, retryVars, appVars, taskVars>>

\* Where the goroutine goes when it has received the stop signal:
\* case <-task.stop: return.
StopIgnored == "select"
AfterStopSignal == "done"

\* A stop channel with a buffer: the send completes with no goroutine
\* receiving.
StopSendBuffered(t) ==
    /\ stopper.pc = "sending"
    /\ stopper.idx = t
    /\ stopper' = IF t = stopper.n
                  THEN [stopper EXCEPT !.pc = "returned", !.idx = 0]
                  ELSE [stopper EXCEPT !.idx = t + 1]
    /\ UNCHANGED <<now, tasks, started, loop, nextFire, tickC, inRun, runCount, lastErr, missed, retryVars, appVars, taskVars>>

\* scheduledTask.stop <- true meets case <-task.stop: the channel is
\* unbuffered, so the send completes only with a goroutine at its select;
\* that goroutine returns and its deferred ticker.Stop() runs.
StopRendezvous(t) ==
    /\ stopper.pc = "sending"
    /\ stopper.idx = t
    /\ loop[t] = "select"
    /\ loop' = [loop EXCEPT ![t] = AfterStopSignal]
    /\ nextFire' = [nextFire EXCEPT ![t] = IF AfterStopSignal = "done" THEN -1 ELSE @]
    /\ stopper' = IF t = stopper.n
                  THEN [stopper EXCEPT !.pc = "returned", !.idx = 0]
                  ELSE [stopper EXCEPT !.idx = t + 1]
    /\ UNCHANGED <<now, tasks, started, tickC, inRun, runCount, lastErr, missed, retryVars, appVars, taskVars>>

\* Time passes, once every ticker due at this instant has fired.
SchedAdvance ==
    /\ now < MaxTime
    /\ \A t \in TaskIds : TickerLive(t) => nextFire[t] > now
    /\ now' = now + 1
    /\ UNCHANGED <<schedVars, retryVars, appVars, taskVars>>

\* Time passes in a scheduler observed from its Start() on, whose
\* goroutines take every tick at the instant it is put in the channel and
\* whose every Run() returns before the interval of its binding has elapsed
\* since the tick that began it.
RegularAdvance ==
    /\ now < MaxObserve
    /\ started
    /\ \A t \in TaskIds : TickerLive(t) =>
            /\ nextFire[t] > now
            /\ loop[t] = "select" => tickC[t] = 0
            /\ loop[t] = "running" => now + 1 < nextFire[t]
    /\ now' = now + 1
    /\ UNCHANGED <<schedVars, retryVars, appVars, taskVars>>

----------------------------------------------------------------------------
(***************************************************************************)
(* DoWithRetry                                                             *)
(***************************************************************************)
\* Largest config.MaxRetries offered to a call.
MaxRetryLimit == 6

\* DefaultRetryConfig, in units of 500ms.
InitialBackoff == 1
MaxBackoff == 20
BackoffMultiplier == 2

\* What one client.Do can produce: a response with a status code, or an
\* error.  "timeout" is a net.Error whose Timeout() is true, "neterr" any
\* other network error; "ctx_deadline" and "ctx_canceled" are the errors
\* client.Do returns when the request's context is done
\* (context.DeadlineExceeded reports Timeout() = true, context.Canceled
\* does not).
\* An outcome is the pair (resp, err) client.Do returns: the status of a
\* response (0 for a nil response) and "nil" or the error.
StatusCodes == {200, 201, 301, 400, 401, 403, 404, 429, 500, 501, 502, 503, 504}
NetErrors == {"timeout", "neterr"}
CtxErrors == {"ctx_deadline", "ctx_canceled"}
Outcomes == [resp : StatusCodes, err : {"nil"}] \cup [resp : {0}, err : NetErrors \cup CtxErrors]
NoOutcome == [resp |-> 0, err |-> "nil"]

\* The outcomes section 4.2 of the specification classifies as transient.
SpecTransient(outcome) == outcome.resp \in {429, 500, 502, 503, 504} \/ outcome.err = "timeout"

\* isRetryableError(err)
AnyErrorRetryable(err) == err # "nil"
isRetryableError(err) == err \in {"timeout", "ctx_deadline"}

\* isRetryableStatusCode(statusCode)
AnyErrorStatusRetryable(statusCode) == statusCode >= 400
isRetryableStatusCode(statusCode) == statusCode \in {429, 500, 502, 503, 504}

\* for attempt := 0; attempt <= config.MaxRetries; attempt++
LoopCondExclusive(attempt, maxRetries) == attempt < maxRetries
LoopCond(attempt, maxRetries) == attempt <= maxRetries

\* math.Pow(config.BackoffMultiplier, float64(attempt))
RECURSIVE Pow(_, _)
Pow(b, e) == IF e = 0 THEN 1 ELSE b * Pow(b, e - 1)

\* backoff := InitialBackoff * Multiplier^attempt, capped at MaxBackoff
BackoffUncapped(attempt) == InitialBackoff * Pow(BackoffMultiplier, attempt)
Backoff(attempt) ==
    LET backoff == InitialBackoff * Pow(BackoffMultiplier, attempt)
    IN  IF backoff > MaxBackoff THEN MaxBackoff ELSE backoff

\* The select of the backoff wait, for a goroutine blocked in it: the
\* first of the two channels to become ready decides.  The timer is never
\* ready on entry (the backoff is positive), so a context that is done
\* wins, and the timer can win only while the context is not done.
BackoffIgnoresCtx(ctxErr) == {"timer"}
BackoffSelect(ctxErr) == IF ctxErr # "none" THEN {"ctx"} ELSE {"timer"}

\* The state of a caller that has not called DoWithRetry.
RetryIdle ==
    retry = [pc |-> "idle", maxRetries |-> 0, attempt |-> 0, ctxErr |-> "none",
             lastErr |-> "nil", resp |-> 0, bodyClosed |-> FALSE, backoff |-> 0,
             retResp |-> 0, retErr |-> "nil",
             requests |-> 0, waits |-> 0, waitsDone |-> 0,
             first |-> NoOutcome, allTransient |-> TRUE,
             cancelledIn |-> "none", reqAtCancel |-> 0, waitsDoneAtCancel |-> 0]

\* DoWithRetry(ctx, client, req, config) is entered with MaxRetries = n.
RetryCalled(n) ==
    retry = [pc |-> "check", maxRetries |-> n, attempt |-> 0, ctxErr |-> "none",
             lastErr |-> "nil", resp |-> 0, bodyClosed |-> FALSE, backoff |-> 0,
             retResp |-> 0, retErr |-> "nil",
             requests |-> 0, waits |-> 0, waitsDone |-> 0,
             first |-> NoOutcome, allTransient |-> TRUE,
             cancelledIn |-> "none", reqAtCancel |-> 0, waitsDoneAtCancel |-> 0]

\* return resp, err
Return(r, resp, err) == [r EXCEPT !.pc = "done", !.retResp = resp, !.retErr = err]

\* ctx.Err()
CtxErr(r) == r.ctxErr

\* The context is cancelled, or its deadline passes, while the call is in
\* progress.
RetryCancel(kind) ==
    /\ retry.pc \in {"check", "do", "backoff"}
    /\ retry.ctxErr = "none"
    /\ retry' = [retry EXCEPT !.ctxErr = kind,
                              !.cancelledIn = retry.pc,
                              !.reqAtCancel = retry.requests,
                              !.waitsDoneAtCancel = retry.waitsDone]
    /\ UNCHANGED <<now, schedVars, taskVars, appVars>>

\* Top of the loop: the loop condition, the non-blocking check of
\* ctx.Done(), then the request is cloned and handed to client.Do.
RetryAttempt ==
    /\ retry.pc = "check"
    /\ retry' = IF ~LoopCond(retry.attempt, retry.maxRetries)
                THEN Return(retry, retry.resp, retry.lastErr)
                ELSE IF retry.ctxErr # "none"
                THEN Return(retry, 0, CtxErr(retry))
                ELSE [retry EXCEPT !.pc = "do", !.requests = @ + 1]
    /\ UNCHANGED <<now, schedVars, taskVars, appVars>>

\* Whether the body of the response in hand has been drained and closed:
\* that is done in the branch that finds its status retryable.
BodyLeftOpen(retryErr, retryStatus) == FALSE
BodyClosed(retryErr, retryStatus) == ~retryErr /\ retryStatus

\* What the code does with the outcome of client.Do, up to its next
\* return or wait.  A response has lastErr = "nil" and resp = its status;
\* an error has resp = 0 (nil).
Classify(r, outcome) ==
    LET err == outcome.err
        resp == outcome.resp
        retryStatus == resp # 0 /\ isRetryableStatusCode(resp)
        retryErr == err # "nil" /\ isRetryableError(err)
        shouldRetry == retryErr \/ retryStatus
        closed == BodyClosed(retryErr, retryStatus)
        seen == [r EXCEPT !.lastErr = err, !.resp = resp, !.bodyClosed = closed,
                          !.first = IF r.first = NoOutcome THEN outcome ELSE @,
                          !.allTransient = @ /\ SpecTransient(outcome)]
    IN  IF err = "nil" /\ ~isRetryableStatusCode(resp)
        THEN Return(seen, resp, "nil")
        ELSE IF ~shouldRetry \/ r.attempt >= r.maxRetries
        THEN (IF err # "nil" THEN Return(seen, 0, err) ELSE Return(seen, resp, "nil"))
        ELSE [seen EXCEPT !.pc = "backoff", !.backoff = Backoff(r.attempt),
                          !.waits = @ + 1]

\* client.Do returns.  A context error is returned only by a request whose
\* context is done, and it is the error of that context.
RetryDoReturns(outcome) ==
    /\ retry.pc = "do"
    /\ outcome.err \in CtxErrors =>
            outcome.err = IF retry.ctxErr = "deadline" THEN "ctx_deadline"
                          ELSE IF retry.ctxErr = "canceled" THEN "ctx_canceled"
                          ELSE "none"
    /\ retry' = Classify(retry, outcome)
    /\ UNCHANGED <<now, schedVars, taskVars, appVars>>

\* case <-time.After(backoff): the wait completes and the loop goes round.
RetryBackoffElapsed ==
    /\ retry.pc = "backoff"
    /\ "timer" \in BackoffSelect(retry.ctxErr)
    /\ retry' = [retry EXCEPT !.pc = "check", !.attempt = @ + 1, !.waitsDone = @ + 1]
    /\ UNCHANGED <<now, schedVars, taskVars, appVars>>

\* case <-ctx.Done(): return nil, ctx.Err()
RetryBackoffCancelled ==
    /\ retry.pc = "backoff"
    /\ "ctx" \in BackoffSelect(retry.ctxErr)
    /\ retry' = Return(retry, 0, CtxErr(retry))
    /\ UNCHANGED <<now, schedVars, taskVars, appVars>>

----------------------------------------------------------------------------
(***************************************************************************)
(* Tasks: PRReviewCheckTask and TelnyxBalanceCheckTask                     *)
(***************************************************************************)
\* Last instant of the tasks' clock.
MaxClock == 6
\* Longest list GetOpenPullRequests returns.
MaxPRs == 2

\* Durations are in units of 84 hours (half a week).
\* minCleanupAge := 7 * 24 * time.Hour
MinCleanupAge == 2
\* time.Duration(staleDays)*24*time.Hour, with stale_days: 7
StaleThreshold == 2
\* GetNotificationCooldown(): notification_cooldown "84h" or "336h"
Cooldowns == {1, 4}

\* Strings are sequences of characters.
\* config.Repositories: the second repository filters by author.
Repositories ==
    << [Owner |-> <<"o">>, Repo |-> <<"r">>, Authors |-> << >>],
       [Owner |-> <<"o">>, Repo |-> <<"s">>, Authors |-> << <<"a">> >>] >>

\* len(config.Repositories): the list above, its first repository alone,
\* or no repository configured.
RepoCounts == 0..Len(Repositories)

\* strconv of a non-negative int, as %d prints it.
Digit(d) == CASE d = 0 -> "0" [] d = 1 -> "1" [] d = 2 -> "2" [] d = 3 -> "3"
              [] d = 4 -> "4" [] d = 5 -> "5" [] d = 6 -> "6" [] d = 7 -> "7"
              [] d = 8 -> "8" [] OTHER -> "9"
RECURSIVE Itoa(_)
Itoa(n) == IF n < 10 THEN <<Digit(n)>> ELSE Itoa(n \div 10) \o <<Digit(n % 10)>>

\* prID := fmt.Sprintf("%s/%s#%d", repoConfig.Owner, repoConfig.Repo, pr.Number)
PrIDNoHash(owner, repo, number) == owner \o <<"/">> \o repo \o Itoa(number)
PrID(owner, repo, number) == owner \o <<"/">> \o repo \o <<"#">> \o Itoa(number)

\* strings.EqualFold over the letters the model uses.
Fold(c) == CASE c = "A" -> "a" [] c = "B" -> "b" [] OTHER -> c
EqualFold(s, t) == Len(s) = Len(t) /\ \A i \in 1..Len(s) : Fold(s[i]) = Fold(t[i])

\* The author filter of one repository.
AuthorAny(authors, login) == TRUE
AuthorMatch(authors, login) ==
    Len(authors) = 0 \/ \E i \in 1..Len(authors) : EqualFold(login, authors[i])

\* time.Since(pr.UpdatedAt) < staleThreshold: the PR is still fresh.
IsFresh(updatedAt, t) == t - updatedAt < StaleThreshold

\* The pull requests the GitHub API may report at instant t.
PullRequests(t) ==
    { [Number |-> 1, Draft |-> FALSE, Login |-> <<"a">>, UpdatedAt |-> t - (StaleThreshold + 1)],
      [Number |-> 1, Draft |-> FALSE, Login |-> <<"a">>, UpdatedAt |-> t - StaleThreshold],
      [Number |-> 1, Draft |-> FALSE, Login |-> <<"a">>, UpdatedAt |-> t - (StaleThreshold - 1)],
      [Number |-> 2, Draft |-> FALSE, Login |-> <<"A">>, UpdatedAt |-> t - (StaleThreshold + 1)],
      [Number |-> 2, Draft |-> TRUE,  Login |-> <<"a">>, UpdatedAt |-> t - (StaleThreshold + 1)],
      [Number |-> 2, Draft |-> FALSE, Login |-> <<"b">>, UpdatedAt |-> t - (StaleThreshold + 1)] }

\* What GetOpenPullRequests may return: (len(prs), err).  The elements of
\* the list are read by the loop only, one at a time, so the model draws
\* each from PullRequests when the loop reaches it.
FetchResults == [n : 0..MaxPRs, err : {FALSE}] \cup [n : {0}, err : {TRUE}]

\* Every key the PR task can build, and the key of the balance alert.
PRKeys == { PrID(Repositories[i].Owner, Repositories[i].Repo, n) :
                i \in 1..Len(Repositories), n \in {1, 2} }
TelnyxKey == <<"telnyx">>
Keys == PRKeys \cup {TelnyxKey}

\* No time: the zero time.Time, the value read for an absent map entry.
None == -1

\* The gate of the PR task: lastTime, ok := map[prID];
\* skip if ok && time.Since(lastTime) < cooldown.
GateInverted(ok, lastTime, t, cooldown) == ~(ok /\ t - lastTime > cooldown)
GateInclusive(ok, lastTime, t, cooldown) == ~(ok /\ t - lastTime <= cooldown)
Gate(ok, lastTime, t, cooldown) == ~(ok /\ t - lastTime < cooldown)

\* The gate of the Telnyx task:
\* skip if !lastNotificationTime.IsZero() && time.Since(last) < cooldown.
TelnyxGateInclusive(last, t, cooldown) == ~(last # None /\ t - last <= cooldown)
TelnyxGate(last, t, cooldown) == ~(last # None /\ t - last < cooldown)

\* cleanupThreshold: the larger of minCleanupAge and the cooldown.
CleanupThresholdMin(cooldown) == IF cooldown > MinCleanupAge THEN MinCleanupAge ELSE cooldown
CleanupThreshold(cooldown) == IF cooldown > MinCleanupAge THEN cooldown ELSE MinCleanupAge

\* The sweep: delete every entry with time.Since(lastTime) > cleanupThreshold.
CleanupFixedFloor(m, t, cooldown) ==
    [k \in {j \in DOMAIN m : ~(t - m[j] > MinCleanupAge)} |-> m[k]]
Cleanup(m, t, cooldown) ==
    [k \in {j \in DOMAIN m : ~(t - m[j] > CleanupThreshold(cooldown))} |-> m[k]]

\* What the map holds after the sink has returned for prID: the time is
\* recorded only when the sink returned no error.
RecordKeepsFirst(m, prID, sinkOK, t) ==
    IF sinkOK /\ prID \notin DOMAIN m
    THEN [k \in DOMAIN m \cup {prID} |-> IF k = prID THEN t ELSE m[k]] ELSE m
RecordAlways(m, prID, sinkOK, t) == [k \in DOMAIN m \cup {prID} |-> IF k = prID THEN t ELSE m[k]]
Record(m, prID, sinkOK, t) ==
    IF sinkOK THEN [k \in DOMAIN m \cup {prID} |-> IF k = prID THEN t ELSE m[k]] ELSE m

\* The same for the Telnyx task's single field.
TelnyxRecord(last, sinkOK, t) == IF sinkOK THEN t ELSE last

\* History of the sink for one key: the instant at which its most recent
\* successful call returned (None if it never succeeded for the key).
NoHist == None

SinkReturned(h, key, sinkOK, t) == IF sinkOK THEN [h EXCEPT ![key] = t] ELSE h

\* No pull request in hand.
NoPR == [Number |-> 0, Draft |-> FALSE, Login |-> << >>, UpdatedAt |-> 0]

\* Run() of the PR task: where it is (pc), the repository and the number of
\* pull requests of its list still to finish, the key of the pull request
\* in hand, whether its message carries the CI decoration, and at "next"
\* how the pull request in hand ended (the branch taken; "fetcherr" right
\* after a fetch that failed).  Observations: how many of the two CI
\* lookups of the pull request in hand failed (lookupErrs), whether a
\* fetch of this Run() has failed so far (fetchFailed) and whether one has
\* returned a list (fetchOK), both kept at "idle" from the last Run(), and
\* at "idle" what
\* the last Run() returned (ret).  pr is the pull request in hand, the
\* element of the list the loop body is running for, up to the CI lookups.
PRIdle == [pc |-> "idle", repo |-> 0, prs |-> 0, key |-> <<>>, ciMsg |-> FALSE,
           how |-> "none", lookupErrs |-> 0, fetchFailed |-> FALSE, ret |-> "none",
           fetchOK |-> FALSE,
           pr |-> NoPR]

\* The Telnyx task's fields, the position of its Run() (pc), the balance in
\* hand and the return statement its last Run() took (ret).
TelnyxNew == [pc |-> "idle", lastNotificationTime |-> None,
              lastObservedBalance |-> 0, hasRunBefore |-> FALSE,
              balance |-> 0, balanceErr |-> FALSE, ret |-> "none"]

\* Owner and repository names and pull-request numbers of the entities
\* whose keys are compared.
Names == { <<"a">>, <<"A">>, <<"1">>, <<"a", "1">>, <<"a", "/">>, <<"/", "a">>,
           <<"a", "#">>, <<"#", "1">> }
Numbers == {1, 2, 12}
Entities == [Owner : Names, Repo : Names, Number : Numbers]
NoEntity == [Owner |-> << >>, Repo |-> << >>, Number |-> 0]

\* No keys are being compared.
NoIds == [pc |-> "none", a |-> NoEntity, b |-> NoEntity,
          keyA |-> << >>, keyB |-> << >>, again |-> << >>]

\* NewPRReviewCheckTask / NewTelnyxBalanceCheckTask: nothing notified yet.
TasksIdle ==
    /\ cfg = [task |-> "none", cooldown |-> 0, repos |-> 0]
    /\ lastNotificationTime = << >>
    /\ prRun = PRIdle
    /\ telnyx = TelnyxNew
    /\ hist = [k \in Keys |-> NoHist]
    /\ prRun2 = PRIdle
    /\ ids = NoIds

\* ---- PRReviewCheckTask.Run ----

\* An invocation r after the sweep: Run() has returned nil.
Returned(r) ==
    [PRIdle EXCEPT !.ret = "nil", !.fetchFailed = r.fetchFailed, !.fetchOK = r.fetchOK]

\* A Run() that returns without the sweep when none of its fetches has
\* returned a list.
NextRepoSweepsAfterFetch(r) ==
    IF r.repo < cfg.repos
    THEN [PRIdle EXCEPT !.pc = "fetch", !.repo = r.repo + 1,
                        !.fetchFailed = r.fetchFailed, !.fetchOK = r.fetchOK]
    ELSE IF r.fetchOK
    THEN [PRIdle EXCEPT !.pc = "cleanup",
                        !.fetchFailed = r.fetchFailed, !.fetchOK = r.fetchOK]
    ELSE Returned(r)

\* After a repository: the next one, or the cleanup sweep after the last.
NextRepo(r) ==
    IF r.repo < cfg.repos
    THEN [PRIdle EXCEPT !.pc = "fetch", !.repo = r.repo + 1,
                        !.fetchFailed = r.fetchFailed, !.fetchOK = r.fetchOK]
    ELSE [PRIdle EXCEPT !.pc = "cleanup",
                        !.fetchFailed = r.fetchFailed, !.fetchOK = r.fetchOK]

\* After a pull request (continue): the next one of the list, or the next
\* repository.
NextPR(r) ==
    IF r.prs > 1
    THEN [PRIdle EXCEPT !.pc = "eval", !.repo = r.repo, !.prs = r.prs - 1,
                        !.fetchFailed = r.fetchFailed, !.fetchOK = r.fetchOK]
    ELSE NextRepo(r)

\* The scheduler's tick calls Run(): the loop over the repositories begins
\* with a call of GetOpenPullRequests.
PRStart ==
    /\ cfg.task = "pr"
    /\ prRun.pc = "idle"
    /\ prRun' = NextRepo(PRIdle)
    /\ UNCHANGED <<now, schedVars, retryVars, appVars, prRun2, ids, cfg, lastNotificationTime, telnyx, hist>>

\* GetOpenPullRequests returned an error: it is logged and the loop
\* continues with the next repository.
AbortOnFetchError(r) == [PRIdle EXCEPT !.ret = "err"]
OnFetchError(r) ==
    [NextRepo(r) EXCEPT !.how = "fetcherr", !.fetchFailed = TRUE]

\* An invocation r after GetOpenPullRequests has returned res.
Fetched(r, res) ==
    IF res.err
    THEN OnFetchError(r)
    ELSE IF res.n = 0
    THEN NextRepo([r EXCEPT !.fetchOK = TRUE])
    ELSE [r EXCEPT !.pc = "eval", !.prs = res.n, !.how = "none", !.fetchOK = TRUE]

\* GetOpenPullRequests returns an error (continue with the next
\* repository) or a list of pull requests.
PRFetch(res) ==
    /\ prRun.pc = "fetch"
    /\ prRun' = Fetched(prRun, res)
    /\ UNCHANGED <<now, schedVars, retryVars, appVars, prRun2, ids, cfg, lastNotificationTime, telnyx, hist>>

\* An invocation r after the filters, the read of the map m and the
\* cooldown check for the pull request pr, at instant t.
Evaluated(r, pr, m, t, cooldown) ==
    LET rc == Repositories[r.repo]
        prID == PrID(rc.Owner, rc.Repo, pr.Number)
        ok == prID \in DOMAIN m
        lastTime == IF ok THEN m[prID] ELSE None
    IN  IF pr.Draft
        THEN [r EXCEPT !.pc = "next", !.key = prID, !.how = "draft", !.pr = pr]
        ELSE IF ~AuthorMatch(rc.Authors, pr.Login)
        THEN [r EXCEPT !.pc = "next", !.key = prID, !.how = "author", !.pr = pr]
        ELSE IF IsFresh(pr.UpdatedAt, t)
        THEN [r EXCEPT !.pc = "next", !.key = prID, !.how = "fresh", !.pr = pr]
        ELSE IF Gate(ok, lastTime, t, cooldown)
        THEN [r EXCEPT !.pc = "ci", !.key = prID, !.pr = pr]
        ELSE [r EXCEPT !.pc = "next", !.key = prID, !.how = "cooldown", !.pr = pr]

\* One pull request pr of the list: the filters (draft, author, staleness),
\* the read of the map under the mutex and the cooldown check on the value
\* read.  A pull request that passes goes on to the two CI lookups; any
\* other is skipped (continue, see PRContinue).
PREval(pr) ==
    /\ prRun.pc = "eval"
    /\ prRun' = Evaluated(prRun, pr, lastNotificationTime, now, cfg.cooldown)
    /\ UNCHANGED <<now, schedVars, retryVars, appVars, prRun2, ids, cfg, lastNotificationTime, telnyx, hist>>

\* What a CI lookup can return: an error (logged), or a state.
LookupResults == {"error", "success", "failure"}

\* The number of the two lookups that returned an error.
LookupErrors(status, suites) ==
    (IF status = "error" THEN 1 ELSE 0) + (IF suites = "error" THEN 1 ELSE 0)

\* Where Run() goes after the two lookups: an error of either is logged
\* and the sink is called all the same.
SkipOnLookupError(status, suites) ==
    IF status = "error" \/ suites = "error" THEN "next" ELSE "send"
AfterLookups(status, suites) == "send"

\* An invocation r after its two CI lookups have returned.
LookedUp(r, status, suites) ==
    [r EXCEPT !.pc = AfterLookups(status, suites),
              !.ciMsg = (status = "failure" \/ suites = "failure"),
              !.lookupErrs = LookupErrors(status, suites),
              !.pr = NoPR]

\* GetCommitStatus and GetCheckSuites return; the message is decorated when
\* either reports a failure, and the sink is called.
PRCi(status, suites) ==
    /\ prRun.pc = "ci"
    /\ prRun' = LookedUp(prRun, status, suites)
    /\ UNCHANGED <<now, schedVars, retryVars, appVars, prRun2, ids, cfg, lastNotificationTime, telnyx, hist>>

\* An invocation r after SendNotification has returned.
Sent(r, sinkOK) ==
    [r EXCEPT !.pc = "next", !.how = IF sinkOK THEN "sent" ELSE "senderr",
              !.lookupErrs = 0]

\* SendNotification returns: an error is logged, a success is recorded
\* under the mutex with time.Now().
PRSendReturns(sinkOK) ==
    /\ prRun.pc = "send"
    /\ lastNotificationTime' = Record(lastNotificationTime, prRun.key, sinkOK, now)
    /\ hist' = SinkReturned(hist, prRun.key, sinkOK, now)
    /\ prRun' = Sent(prRun, sinkOK)
    /\ UNCHANGED <<now, schedVars, retryVars, appVars, prRun2, ids, cfg, telnyx>>

\* The end of the body of the loop over the pull requests, reached by a
\* continue or after the sink has returned.
PRContinue ==
    /\ prRun.pc = "next"
    /\ prRun' = NextPR(prRun)
    /\ UNCHANGED <<now, schedVars, retryVars, appVars, prRun2, ids, cfg, lastNotificationTime, telnyx, hist>>

\* The sweep at the end of Run(), under the mutex; Run() returns nil.
PRCleanup ==
    /\ prRun.pc = "cleanup"
    /\ lastNotificationTime' = Cleanup(lastNotificationTime, now, cfg.cooldown)
    /\ prRun' = Returned(prRun)
    /\ UNCHANGED <<now, schedVars, retryVars, appVars, prRun2, ids, cfg, telnyx, hist>>

\* ---- a second, overlapping invocation of PRReviewCheckTask.Run ----
\* The same task instance is run by another goroutine (it is registered
\* twice): the same code, its own locals, the same map and mutex.  Each
\* critical section of the mutex is one step.

Run2Start ==
    /\ cfg.task = "pr"
    /\ prRun2.pc = "idle"
    /\ prRun2' = NextRepo(PRIdle)
    /\ UNCHANGED <<now, schedVars, retryVars, appVars, cfg, lastNotificationTime, prRun, telnyx, hist, ids>>

Run2Fetch(res) ==
    /\ prRun2.pc = "fetch"
    /\ prRun2' = Fetched(prRun2, res)
    /\ UNCHANGED <<now, schedVars, retryVars, appVars, cfg, lastNotificationTime, prRun, telnyx, hist, ids>>

Run2Eval(pr) ==
    /\ prRun2.pc = "eval"
    /\ prRun2' = Evaluated(prRun2, pr, lastNotificationTime, now, cfg.cooldown)
    /\ UNCHANGED <<now, schedVars, retryVars, appVars, cfg, lastNotificationTime, prRun, telnyx, hist, ids>>

Run2Ci(status, suites) ==
    /\ prRun2.pc = "ci"
    /\ prRun2' = LookedUp(prRun2, status, suites)
    /\ UNCHANGED <<now, schedVars, retryVars, appVars, cfg, lastNotificationTime, prRun, telnyx, hist, ids>>

Run2SendReturns(sinkOK) ==
    /\ prRun2.pc = "send"
    /\ lastNotificationTime' = Record(lastNotificationTime, prRun2.key, sinkOK, now)
    /\ hist' = SinkReturned(hist, prRun2.key, sinkOK, now)
    /\ prRun2' = Sent(prRun2, sinkOK)
    /\ UNCHANGED <<now, schedVars, retryVars, appVars, cfg, prRun, telnyx, ids>>

Run2Continue ==
    /\ prRun2.pc = "next"
    /\ prRun2' = NextPR(prRun2)
    /\ UNCHANGED <<now, schedVars, retryVars, appVars, cfg, lastNotificationTime, prRun, telnyx, hist, ids>>

Run2Cleanup ==
    /\ prRun2.pc = "cleanup"
    /\ lastNotificationTime' = Cleanup(lastNotificationTime, now, cfg.cooldown)
    /\ prRun2' = Returned(prRun2)
    /\ UNCHANGED <<now, schedVars, retryVars, appVars, cfg, prRun, telnyx, hist, ids>>

\* ---- the dedup key ----
\* prID is built for the entity a, then for the entity b, then for a once
\* more (a later evaluation cycle).
BuildKeyA ==
    /\ ids.pc = "drawn"
    /\ ids' = [ids EXCEPT !.pc = "one", !.keyA = PrID(ids.a.Owner, ids.a.Repo, ids.a.Number)]
    /\ UNCHANGED <<now, schedVars, retryVars, appVars, cfg, lastNotificationTime, prRun, telnyx, hist, prRun2>>

BuildKeyB ==
    /\ ids.pc = "one"
    /\ ids' = [ids EXCEPT !.pc = "both", !.keyB = PrID(ids.b.Owner, ids.b.Repo, ids.b.Number)]
    /\ UNCHANGED <<now, schedVars, retryVars, appVars, cfg, lastNotificationTime, prRun, telnyx, hist, prRun2>>

BuildKeyAgain ==
    /\ ids.pc = "both"
    /\ ids' = [ids EXCEPT !.pc = "done", !.again = PrID(ids.a.Owner, ids.a.Repo, ids.a.Number)]
    /\ UNCHANGED <<now, schedVars, retryVars, appVars, cfg, lastNotificationTime, prRun, telnyx, hist, prRun2>>

\* ---- TelnyxBalanceCheckTask.Run ----
\* TelnyxBalanceCheckTask.threshold
Threshold == 10
\* Balances GetBalance may report.
Balances == {5, 10, 25}

\* What GetBalance may return: (balance, err).
BalanceResults == [balance : Balances, err : {FALSE}] \cup [balance : {0}, err : {TRUE}]

\* The scheduler's tick calls Run(): GetBalance is called.
TelnyxStart ==
    /\ cfg.task = "telnyx"
    /\ telnyx.pc = "idle"
    /\ telnyx' = [telnyx EXCEPT !.pc = "balance", !.balanceErr = FALSE, !.ret = "none"]
    /\ UNCHANGED <<now, schedVars, retryVars, appVars, prRun2, ids, cfg, lastNotificationTime, prRun, hist>>

\* A Run() that takes the error of GetBalance for a balance of zero.
BalanceErrorIsZero(tx, res, t, cooldown) ==
    LET seen == [tx EXCEPT !.balanceErr = res.err,
                           !.lastObservedBalance = res.balance, !.hasRunBefore = TRUE]
    IN  IF res.balance < Threshold
        THEN IF TelnyxGate(tx.lastNotificationTime, t, cooldown)
             THEN [seen EXCEPT !.pc = "send", !.balance = res.balance]
             ELSE [seen EXCEPT !.pc = "idle", !.ret = "nil:cooldown"]
        ELSE [seen EXCEPT !.pc = "idle", !.ret = "nil"]

\* Run() from the return of GetBalance at instant t to its own return or
\* to its call of the sink: an error ends Run() with an error; a balance
\* below the threshold goes through the cooldown check to the sink.
BalanceReturned(tx, res, t, cooldown) ==
    IF res.err
    THEN [tx EXCEPT !.pc = "idle", !.balanceErr = TRUE, !.ret = "err:balance"]
    ELSE LET seen == [tx EXCEPT !.lastObservedBalance = res.balance, !.hasRunBefore = TRUE]
         IN  IF res.balance < Threshold
             THEN IF TelnyxGate(tx.lastNotificationTime, t, cooldown)
                  THEN [seen EXCEPT !.pc = "send", !.balance = res.balance]
                  ELSE [seen EXCEPT !.pc = "idle", !.ret = "nil:cooldown"]
             ELSE [seen EXCEPT !.pc = "idle", !.ret = "nil"]

\* GetBalance returns.
TelnyxBalanceReturns(res) ==
    /\ telnyx.pc = "balance"
    /\ telnyx' = BalanceReturned(telnyx, res, now, cfg.cooldown)
    /\ UNCHANGED <<now, schedVars, retryVars, appVars, prRun2, ids, cfg, lastNotificationTime, prRun, hist>>

\* SendNotification returns: an error ends Run() with an error and leaves
\* lastNotificationTime alone; a success sets it to time.Now().
TelnyxSendReturns(sinkOK) ==
    /\ telnyx.pc = "send"
    /\ telnyx' = [telnyx EXCEPT !.pc = "idle", !.balance = 0,
                    !.lastNotificationTime = TelnyxRecord(@, sinkOK, now),
                    !.ret = IF sinkOK THEN "nil:sent" ELSE "err:send"]
    /\ hist' = SinkReturned(hist, TelnyxKey, sinkOK, now)
    /\ UNCHANGED <<now, schedVars, retryVars, appVars, prRun2, ids, cfg, lastNotificationTime, prRun>>

\* Time passes while a task waits: between two ticks, and during its calls
\* of the API and of the sink.
TaskAdvance ==
    /\ now < MaxClock
    /\ prRun.pc \in {"idle", "fetch", "ci", "send"}
    /\ now' = now + 1
    /\ UNCHANGED <<schedVars, retryVars, appVars, taskVars>>

----------------------------------------------------------------------------
(***************************************************************************)
(* Configuration and runApp                                                *)
(***************************************************************************)
\* Durations of this section are in seconds; a string is the sequence of
\* its characters.

\* strings.TrimSpace, for strings whose only white space is " ".
RECURSIVE TrimLeft(_)
TrimLeft(s) == IF s # << >> /\ Head(s) = " " THEN TrimLeft(Tail(s)) ELSE s
RECURSIVE TrimRight(_)
TrimRight(s) ==
    IF s # << >> /\ s[Len(s)] = " " THEN TrimRight(SubSeq(s, 1, Len(s) - 1)) ELSE s
TrimSpace(s) == TrimRight(TrimLeft(s))

\* time.ParseDuration, for strings without a fraction and with the units
\* of a second and more: [-+]?([0-9]+(s|m|h))+, or "0" with a sign or not.
IsDigit(c) == \E d \in 0..9 : Digit(d) = c
DigitValue(c) == CHOOSE d \in 0..9 : Digit(d) = c

\* The leading digits of s as a number, and what follows them.
RECURSIVE LeadingInt(_, _)
LeadingInt(s, acc) ==
    IF s # << >> /\ IsDigit(Head(s))
    THEN LeadingInt(Tail(s), 10 * acc + DigitValue(Head(s)))
    ELSE [n |-> acc, rest |-> s]

\* The length of the unit s begins with: the characters up to the next
\* digit or ".".
RECURSIVE UnitLen(_)
UnitLen(s) ==
    IF s # << >> /\ ~IsDigit(Head(s)) /\ Head(s) # "." THEN 1 + UnitLen(Tail(s)) ELSE 0

\* unitMap, in seconds; 0 for a unit that is not in it.
unitMap(u) ==
    CASE u = <<"s">> -> 1 [] u = <<"m">> -> 60 [] u = <<"h">> -> 3600 [] OTHER -> 0

BadDuration == [err |-> TRUE, d |-> 0]

\* The loop of ParseDuration over the (number, unit) groups of s.
RECURSIVE Groups(_)
Groups(s) ==
    IF s = << >> THEN [err |-> FALSE, d |-> 0]
    ELSE LET li == LeadingInt(s, 0)
             ul == UnitLen(li.rest)
             u == SubSeq(li.rest, 1, ul)
             more == Groups(SubSeq(li.rest, ul + 1, Len(li.rest)))
         IN  IF Len(li.rest) = Len(s) \/ ul = 0 \/ unitMap(u) = 0 THEN BadDuration
             ELSE IF more.err THEN BadDuration
             ELSE [err |-> FALSE, d |-> li.n * unitMap(u) + more.d]

ParseDuration(s) ==
    LET signed == s # << >> /\ Head(s) \in {"-", "+"}
        neg == s # << >> /\ Head(s) = "-"
        body == IF signed THEN Tail(s) ELSE s
        g == Groups(body)
    IN  IF body = <<"0">> THEN [err |-> FALSE, d |-> 0]
        ELSE IF body = << >> \/ g.err THEN BadDuration
        ELSE [err |-> FALSE, d |-> IF neg THEN -g.d ELSE g.d]

\* parseDurationWithDefault(value, defaultDuration, configPath)
parseDurationWithDefault(value, defaultDuration) ==
    LET v == TrimSpace(value)
        p == ParseDuration(v)
    IN  IF v = << >> THEN defaultDuration
        ELSE IF p.err THEN defaultDuration
        ELSE p.d

\* SchedulerConfig.GetInterval(): the default is 5 minutes.
DefaultInterval == 300
SchedulerGetInterval(value) == parseDurationWithDefault(value, DefaultInterval)

\* TelnyxConfig.GetInterval / GitHubConfig.GetInterval
TaskGetInterval(value, globalDefault) == parseDurationWithDefault(value, globalDefault)

\* The interval strings a configuration file can hold.
DurationStrings ==
    { << >>, <<" ", " ">>, <<"5", "m">>, <<" ", "5", "m", " ">>, <<"x">>, <<"9", "0">>,
      <<"1", "h", "3", "0", "m">>, <<"+", "2", "m">>, <<"0">>, <<"0", "s">>,
      <<"-", "5", "m">> }

\* No application: the components are used by themselves.
NoApp == [pc |-> "none", scheduler |-> << >>, telnyx |-> << >>, github |-> << >>,
          telnyxOn |-> FALSE, repos |-> FALSE, globalInterval |-> 0]

\* runApp is entered with a validated configuration: the three interval
\* strings, whether Telnyx has its URL and key, whether there are
\* repositories.
AppConfigs ==
    [pc : {"interval"}, scheduler : DurationStrings, telnyx : DurationStrings,
     github : DurationStrings, telnyxOn : BOOLEAN, repos : BOOLEAN,
     globalInterval : {0}]

\* globalInterval := appConfig.Scheduler.GetInterval()
AppGlobalInterval ==
    /\ app.pc = "interval"
    /\ app' = [app EXCEPT !.pc = "telnyx",
                          !.globalInterval = SchedulerGetInterval(app.scheduler)]
    /\ UNCHANGED <<now, schedVars, retryVars, taskVars, hook, runCtx, mu>>

\* if telnyxCfg.APIURL != "" && telnyxCfg.APIKey != "" { ... ScheduleTask }
AppTelnyx ==
    /\ app.pc = "telnyx"
    /\ app' = [app EXCEPT !.pc = "github"]
    /\ IF app.telnyxOn
       THEN Scheduled(TaskGetInterval(app.telnyx, app.globalInterval))
       ELSE UNCHANGED schedVars
    /\ UNCHANGED <<now, retryVars, taskVars, hook, runCtx, mu>>

\* if len(githubCfg.Repositories) > 0 { ... ScheduleTask }
AppGitHub ==
    /\ app.pc = "github"
    /\ app' = [app EXCEPT !.pc = "check"]
    /\ IF app.repos
       THEN Scheduled(TaskGetInterval(app.github, app.globalInterval))
       ELSE UNCHANGED schedVars
    /\ UNCHANGED <<now, retryVars, taskVars, hook, runCtx, mu>>

\* if !sched.HasTasks() { log.Fatal() }; sched.Start().  time.NewTicker
\* panics in the goroutine of a binding whose interval is not positive.
AppStart ==
    /\ app.pc = "check"
    /\ IF ~HasTasks
       THEN app' = [app EXCEPT !.pc = "fatal"] /\ UNCHANGED schedVars
       ELSE IF \E t \in TaskIds : tasks[t].interval <= 0
       THEN /\ app' = [app EXCEPT !.pc = "panic"]
            /\ started' = TRUE
            /\ UNCHANGED <<tasks, loop, tickC, nextFire, inRun, runCount, lastErr, missed, stopper>>
       ELSE app' = [app EXCEPT !.pc = "running"] /\ Launched
    /\ UNCHANGED <<now, retryVars, taskVars, hook, runCtx, mu>>

----------------------------------------------------------------------------
(***************************************************************************)
(* WebhookNotifier.SendNotification                                        *)
(***************************************************************************)
\* webhookRetryConfig, durations in milliseconds.
WebhookMaxRetries == 3
WebhookInitialBackoff == 500
WebhookMaxBackoff == 10000
WebhookBackoffMultiplier == 2

\* What webhookHTTPClient.Do can produce: a response with a status code,
\* or an error as in Outcomes.
HookStatusCodes == {200, 201, 202, 299, 300, 404, 429, 500, 503}
HookOutcomes ==
    [resp : HookStatusCodes, err : {"nil"}] \cup [resp : {0}, err : NetErrors \cup CtxErrors]

\* calculateBackoff(attempt)
calculateBackoff(attempt) ==
    LET backoff == WebhookInitialBackoff * Pow(WebhookBackoffMultiplier, attempt)
    IN  IF backoff > WebhookMaxBackoff THEN WebhookMaxBackoff ELSE backoff

\* resp.StatusCode >= 200 && resp.StatusCode < 300
OnlyOK(statusCode) == statusCode = 200
IsSuccess(statusCode) == statusCode >= 200 /\ statusCode < 300

\* resp.StatusCode >= 500: the statuses that are tried again.
RetryTooManyRequests(statusCode) == statusCode >= 500 \/ statusCode = 429
IsRetryableStatus(statusCode) == statusCode >= 500

\* netErr, ok := err.(net.Error); ok && netErr.Timeout()
IsTimeout(err) == err \in {"timeout", "ctx_deadline"}

\* Nobody has called SendNotification.
HookIdle == [pc |-> "idle", urlOK |-> TRUE, attempt |-> 0, ctxErr |-> "none",
             lastErr |-> "nil", resp |-> 0, bodyClosed |-> FALSE,
             backoff |-> 0, ret |-> "none",
             got2xx |-> FALSE, requests |-> 0]

\* SendNotification(ctx, subject, message) is entered; the payload is
\* marshalled (strings and a slice of strings: no error).  urlOK tells
\* whether http.NewRequestWithContext accepts w.WebhookURL.
HookCalled(urlOK) == [HookIdle EXCEPT !.pc = "head", !.urlOK = urlOK]

\* No context: Run() of the Telnyx task is not in progress, or its
\* deadline is left out.
NoCtx == [deadline |-> None, startAt |-> None, sendAt |-> None]

\* sync.Mutex, unlocked: holder is the invocation of Run() (1 or 2) that
\* has locked it, 0 for none; seen is lastTime, ok of each invocation's
\* last read of the map.
NoRead == [ok |-> FALSE, lastTime |-> None]
MuFree == [holder |-> 0, seen |-> <<NoRead, NoRead>>]

AppIdle == app = NoApp /\ hook = HookIdle /\ runCtx = NoCtx /\ mu = MuFree

\* return err / return nil
HookReturn(h, ret) == [h EXCEPT !.pc = "done", !.ret = ret]

\* The context of the call is cancelled, or its deadline passes.
HookCancel(kind) ==
    /\ hook.pc \in {"head", "do", "backoff"}
    /\ hook.ctxErr = "none"
    /\ hook' = [hook EXCEPT !.ctxErr = kind]
    /\ UNCHANGED <<now, schedVars, retryVars, taskVars, app, runCtx, mu>>

\* Top of the loop: the loop condition, the non-blocking check of
\* ctx.Done(), the creation of the request; after the loop, the two
\* returns that follow it.
HookLoopHead(h) ==
    IF h.attempt <= WebhookMaxRetries
    THEN IF h.ctxErr # "none" THEN HookReturn(h, "err:ctx")
         ELSE IF ~h.urlOK THEN HookReturn(h, "err:create")
         ELSE [h EXCEPT !.pc = "do", !.requests = @ + 1]
    ELSE IF h.lastErr # "nil" THEN HookReturn(h, "err:retries")
         ELSE HookReturn(h, "nil")

HookAttempt ==
    /\ hook.pc = "head"
    /\ hook' = HookLoopHead(hook)
    /\ UNCHANGED <<now, schedVars, retryVars, taskVars, app, runCtx, mu>>

\* io.Copy(io.Discard, resp.Body); resp.Body.Close(): done for every
\* response, before its status is looked at.
HookBodyClosed(err) == err = "nil"

\* What the code does with the outcome of webhookHTTPClient.Do, up to its
\* next return or wait.
HookClassify(h, outcome) ==
    LET err == outcome.err
        status == outcome.resp
        seen == [h EXCEPT !.lastErr = IF err # "nil" THEN err ELSE @,
                          !.resp = status,
                          !.bodyClosed = HookBodyClosed(err),
                          !.got2xx = @ \/ (err = "nil" /\ status \in 200..299)]
        wait == [seen EXCEPT !.pc = "backoff", !.backoff = calculateBackoff(h.attempt)]
    IN  IF err # "nil"
        THEN IF IsTimeout(err) /\ h.attempt < WebhookMaxRetries
             THEN wait
             ELSE HookReturn(seen, "err:send")
        ELSE IF IsSuccess(status) THEN HookReturn(seen, "nil")
        ELSE IF IsRetryableStatus(status) /\ h.attempt < WebhookMaxRetries THEN wait
        ELSE HookReturn(seen, "err:status")

\* webhookHTTPClient.Do returns.  A context error is returned only by a
\* request whose context is done, and it is the error of that context.
HookDoReturns(outcome) ==
    /\ hook.pc = "do"
    /\ outcome.err \in CtxErrors =>
            outcome.err = IF hook.ctxErr = "deadline" THEN "ctx_deadline"
                          ELSE IF hook.ctxErr = "canceled" THEN "ctx_canceled"
                          ELSE "none"
    /\ hook' = HookClassify(hook, outcome)
    /\ UNCHANGED <<now, schedVars, retryVars, taskVars, app, runCtx, mu>>

\* case <-time.After(backoff): continue
HookBackoffElapsed ==
    /\ hook.pc = "backoff"
    /\ hook.ctxErr = "none"
    /\ hook' = [hook EXCEPT !.pc = "head", !.attempt = @ + 1]
    /\ UNCHANGED <<now, schedVars, retryVars, taskVars, app, runCtx, mu>>

\* case <-ctx.Done(): return ctx.Err()
HookBackoffCancelled ==
    /\ hook.pc = "backoff"
    /\ hook.ctxErr # "none"
    /\ hook' = HookReturn(hook, "err:ctx")
    /\ UNCHANGED <<now, schedVars, retryVars, taskVars, app, runCtx, mu>>

----------------------------------------------------------------------------
(***************************************************************************)
(* The deadline of TelnyxBalanceCheckTask.Run                              *)
(***************************************************************************)
\* Durations of this section are in units of 10 seconds.
\* Last instant of the clock of a Run() observed with its deadline.
MaxBudgetClock == 8
\* Last instant of the clock of two invocations observed with the mutex.
MaxMutexClock == 3

\* context.WithTimeout(context.Background(), 30*time.Second)
RunTimeout == 3

\* Run() is called: it creates its context, then calls GetBalance with it.
CtxStart ==
    /\ telnyx.pc = "idle"
    /\ telnyx' = [telnyx EXCEPT !.pc = "balance", !.balanceErr = FALSE, !.ret = "none"]
    /\ runCtx' = [deadline |-> now + RunTimeout, startAt |-> now, sendAt |-> None]
    /\ UNCHANGED <<now, schedVars, retryVars, app, hook, mu, prRun2, ids, cfg,
                   lastNotificationTime, prRun, hist>>

\* GetBalance returns; Run() returns (defer cancel()) or calls
\* SendNotification with the same context.
CtxBalanceReturns(res) ==
    /\ telnyx.pc = "balance"
    /\ telnyx' = BalanceReturned(telnyx, res, now, cfg.cooldown)
    /\ runCtx' = IF telnyx'.pc = "send" THEN [runCtx EXCEPT !.sendAt = now] ELSE NoCtx
    /\ UNCHANGED <<now, schedVars, retryVars, app, hook, mu, prRun2, ids, cfg,
                   lastNotificationTime, prRun, hist>>

\* SendNotification returns, and Run() with it.
CtxSendReturns(sinkOK) ==
    /\ telnyx.pc = "send"
    /\ telnyx' = [telnyx EXCEPT !.pc = "idle", !.balance = 0,
                    !.lastNotificationTime = TelnyxRecord(@, sinkOK, now),
                    !.ret = IF sinkOK THEN "nil:sent" ELSE "err:send"]
    /\ hist' = SinkReturned(hist, TelnyxKey, sinkOK, now)
    /\ runCtx' = NoCtx
    /\ UNCHANGED <<now, schedVars, retryVars, app, hook, mu, prRun2, ids, cfg,
                   lastNotificationTime, prRun>>

\* Time passes; a call made with the context returns when the context's
\* deadline passes, if not before.
CtxAdvance ==
    /\ now < MaxBudgetClock
    /\ telnyx.pc \in {"balance", "send"} => now < runCtx.deadline
    /\ now' = now + 1
    /\ UNCHANGED <<schedVars, retryVars, appVars, taskVars>>

----------------------------------------------------------------------------
(***************************************************************************)
(* The mutex of PRReviewCheckTask                                          *)
(***************************************************************************)
\* Two invocations of Run() on one instance, statement by statement where
\* the mutex and the map are concerned.  Invocation 1 is prRun, invocation
\* 2 is prRun2.  The history of the sink is not observed here.
Invocations == {1, 2}
RunOf(g) == IF g = 1 THEN prRun ELSE prRun2
SetRun(g, r) ==
    IF g = 1 THEN prRun' = r /\ UNCHANGED prRun2 ELSE prRun2' = r /\ UNCHANGED prRun

\* t.mu.Lock() returns to g; t.mu.Unlock().
Locked(holder, g) == g
UnlockLeftOut(holder) == holder
Unlocked(holder) == 0

\* The map as the gate of g sees it: the value read under the mutex.
SeenMap(g) ==
    IF mu.seen[g].ok
    THEN [k \in {RunOf(g).key} |-> mu.seen[g].lastTime]
    ELSE << >>

\* The tick calls Run().
MuStart(g) ==
    /\ cfg.task = "pr"
    /\ RunOf(g).pc = "idle"
    /\ SetRun(g, NextRepo(PRIdle))
    /\ UNCHANGED <<now, schedVars, retryVars, app, hook, runCtx, mu, cfg,
                   lastNotificationTime, telnyx, hist, ids>>

\* GetOpenPullRequests returns.
MuFetch(g, res) ==
    /\ RunOf(g).pc = "fetch"
    /\ SetRun(g, Fetched(RunOf(g), res))
    /\ UNCHANGED <<now, schedVars, retryVars, app, hook, runCtx, mu, cfg,
                   lastNotificationTime, telnyx, hist, ids>>

\* The filters of one pull request; one that passes them builds its key
\* and calls t.mu.Lock(), which returns when the mutex is free.
MuLockRead(g, pr) ==
    LET r == RunOf(g)
        skipped == Evaluated(r, pr, << >>, now, cfg.cooldown)
    IN  /\ r.pc = "eval"
        /\ IF skipped.pc = "next"
           THEN SetRun(g, skipped) /\ UNCHANGED mu
           ELSE /\ mu.holder = 0
                /\ mu' = [mu EXCEPT !.holder = Locked(@, g)]
                /\ SetRun(g, [r EXCEPT !.pc = "locked_r", !.key = skipped.key, !.pr = pr])
        /\ UNCHANGED <<now, schedVars, retryVars, app, hook, runCtx, cfg,
                       lastNotificationTime, telnyx, hist, ids>>

\* lastTime, ok := t.lastNotificationTime[prID]
MuRead(g) ==
    LET r == RunOf(g)
        ok == r.key \in DOMAIN lastNotificationTime
    IN  /\ r.pc = "locked_r"
        /\ mu' = [mu EXCEPT !.seen[g] =
                     [ok |-> ok,
                      lastTime |-> IF ok THEN lastNotificationTime[r.key] ELSE None]]
        /\ SetRun(g, [r EXCEPT !.pc = "read"])
        /\ UNCHANGED <<now, schedVars, retryVars, app, hook, runCtx, cfg,
                       lastNotificationTime, telnyx, hist, ids>>

\* t.mu.Unlock() after the read, then the cooldown check on the value read.
MuUnlockRead(g) ==
    LET r == RunOf(g)
    IN  /\ r.pc = "read"
        /\ mu' = [mu EXCEPT !.holder = Unlocked(@)]
        /\ SetRun(g, Evaluated([r EXCEPT !.pc = "eval"], r.pr, SeenMap(g), now, cfg.cooldown))
        /\ UNCHANGED <<now, schedVars, retryVars, app, hook, runCtx, cfg,
                       lastNotificationTime, telnyx, hist, ids>>

\* GetCommitStatus and GetCheckSuites return.
MuCi(g, status, suites) ==
    /\ RunOf(g).pc = "ci"
    /\ SetRun(g, LookedUp(RunOf(g), status, suites))
    /\ UNCHANGED <<now, schedVars, retryVars, app, hook, runCtx, mu, cfg,
                   lastNotificationTime, telnyx, hist, ids>>

\* SendNotification returns: an error is logged; after a success Run()
\* goes on to record it.
MuSendReturns(g, sinkOK) ==
    LET r == RunOf(g)
    IN  /\ r.pc = "send"
        /\ SetRun(g, IF sinkOK THEN [r EXCEPT !.pc = "record"] ELSE Sent(r, FALSE))
        /\ UNCHANGED <<now, schedVars, retryVars, app, hook, runCtx, mu, cfg,
                       lastNotificationTime, telnyx, hist, ids>>

\* t.mu.Lock() before the write.
MuLockWrite(g) ==
    /\ RunOf(g).pc = "record"
    /\ mu.holder = 0
    /\ mu' = [mu EXCEPT !.holder = Locked(@, g)]
    /\ SetRun(g, [RunOf(g) EXCEPT !.pc = "locked_w"])
    /\ UNCHANGED <<now, schedVars, retryVars, app, hook, runCtx, cfg,
                   lastNotificationTime, telnyx, hist, ids>>

\* t.lastNotificationTime[prID] = time.Now()
MuWrite(g) ==
    /\ RunOf(g).pc = "locked_w"
    /\ lastNotificationTime' = Record(lastNotificationTime, RunOf(g).key, TRUE, now)
    /\ SetRun(g, [RunOf(g) EXCEPT !.pc = "written"])
    /\ UNCHANGED <<now, schedVars, retryVars, app, hook, runCtx, mu, cfg,
                   telnyx, hist, ids>>

\* t.mu.Unlock() after the write.
MuUnlockWrite(g) ==
    /\ RunOf(g).pc = "written"
    /\ mu' = [mu EXCEPT !.holder = Unlocked(@)]
    /\ SetRun(g, Sent(RunOf(g), TRUE))
    /\ UNCHANGED <<now, schedVars, retryVars, app, hook, runCtx, cfg,
                   lastNotificationTime, telnyx, hist, ids>>

\* The end of the loop body.
MuContinue(g) ==
    /\ RunOf(g).pc = "next"
    /\ SetRun(g, NextPR(RunOf(g)))
    /\ UNCHANGED <<now, schedVars, retryVars, app, hook, runCtx, mu, cfg,
                   lastNotificationTime, telnyx, hist, ids>>

\* t.mu.Lock() before the sweep.
MuLockSweep(g) ==
    /\ RunOf(g).pc = "cleanup"
    /\ mu.holder = 0
    /\ mu' = [mu EXCEPT !.holder = Locked(@, g)]
    /\ SetRun(g, [RunOf(g) EXCEPT !.pc = "locked_c"])
    /\ UNCHANGED <<now, schedVars, retryVars, app, hook, runCtx, cfg,
                   lastNotificationTime, telnyx, hist, ids>>

\* The range over the map with its deletes.
MuSweep(g) ==
    /\ RunOf(g).pc = "locked_c"
    /\ lastNotificationTime' = Cleanup(lastNotificationTime, now, cfg.cooldown)
    /\ SetRun(g, [RunOf(g) EXCEPT !.pc = "swept"])
    /\ UNCHANGED <<now, schedVars, retryVars, app, hook, runCtx, mu, cfg,
                   telnyx, hist, ids>>

\* t.mu.Unlock() after the sweep; return nil.
MuUnlockSweep(g) ==
    /\ RunOf(g).pc = "swept"
    /\ mu' = [mu EXCEPT !.holder = Unlocked(@)]
    /\ SetRun(g, Returned(RunOf(g)))
    /\ UNCHANGED <<now, schedVars, retryVars, app, hook, runCtx, cfg,
                   lastNotificationTime, telnyx, hist, ids>>

\* Time passes between two ticks and during the calls of the API and of
\* the sink.
MuAdvance ==
    /\ now < MaxMutexClock
    /\ \A g \in Invocations : RunOf(g).pc \in {"idle", "fetch", "ci", "send"}
    /\ now' = now + 1
    /\ UNCHANGED <<schedVars, retryVars, appVars, taskVars>>

----------------------------------------------------------------------------
(***************************************************************************)
(* Specifications                                                          *)
(***************************************************************************)
SchedInit == now = 0 /\ SchedIdle /\ RetryIdle /\ TasksIdle /\ AppIdle

SchedNext ==
    \/ \E i \in Intervals : ScheduleTask(i)
    \/ Start
    \/ \E t \in TaskIds : TickerFire(t)
    \/ \E t \in TaskIds : LoopTick(t)
    \/ \E t \in TaskIds, err \in {"nil", "err"} : RunReturn(t, err)
    \/ StopCall
    \/ \E t \in TaskIds : StopRendezvous(t)
    \/ SchedAdvance

SchedSpec == SchedInit /\ [][SchedNext]_vars

\* The scheduler with prompt goroutines and short Run()s, its clock
\* counting from Start().
TimingNext ==
    \/ \E i \in Intervals : ScheduleTask(i)
    \/ Start
    \/ \E t \in TaskIds : TickerFire(t)
    \/ \E t \in TaskIds : LoopTick(t)
    \/ \E t \in TaskIds, err \in {"nil", "err"} : RunReturn(t, err)
    \/ StopCall
    \/ \E t \in TaskIds : StopRendezvous(t)
    \/ RegularAdvance

TimingSpec == SchedInit /\ [][TimingNext]_vars

\* The scheduler whose every Run() returns, and whose select, offered the
\* stop signal again and again, takes it in the end (the choice among the
\* ready cases of a select is uniformly random).
LiveSpec ==
    /\ SchedSpec
    /\ \A t \in 1..MaxTasks :
          /\ WF_vars(t \in TaskIds /\ \E err \in {"nil", "err"} : RunReturn(t, err))
          /\ SF_vars(t \in TaskIds /\ StopRendezvous(t))

RetryInit ==
    /\ now = 0 /\ SchedIdle /\ TasksIdle /\ AppIdle
    /\ \E n \in 0..MaxRetryLimit : RetryCalled(n)

RetryNext ==
    \/ \E kind \in {"canceled", "deadline"} : RetryCancel(kind)
    \/ RetryAttempt
    \/ \E outcome \in Outcomes : RetryDoReturns(outcome)
    \/ RetryBackoffElapsed
    \/ RetryBackoffCancelled

RetrySpec == RetryInit /\ [][RetryNext]_vars

TaskInit ==
    /\ now = 0 /\ SchedIdle /\ RetryIdle /\ AppIdle
    /\ cfg \in [task : {"pr", "telnyx"}, cooldown : Cooldowns, repos : RepoCounts]
    /\ lastNotificationTime = << >>
    /\ prRun = PRIdle
    /\ telnyx = TelnyxNew
    /\ hist = [k \in Keys |-> NoHist]
    /\ prRun2 = PRIdle
    /\ ids = NoIds

TaskNext ==
    \/ PRStart
    \/ \E res \in FetchResults : PRFetch(res)
    \/ \E pr \in PullRequests(now) : PREval(pr)
    \/ \E status \in LookupResults, suites \in LookupResults : PRCi(status, suites)
    \/ \E sinkOK \in BOOLEAN : PRSendReturns(sinkOK)
    \/ PRContinue
    \/ PRCleanup
    \/ TelnyxStart
    \/ \E res \in BalanceResults : TelnyxBalanceReturns(res)
    \/ \E sinkOK \in BOOLEAN : TelnyxSendReturns(sinkOK)
    \/ TaskAdvance

TaskSpec == TaskInit /\ [][TaskNext]_vars

\* The PR task, with one repository configured or none, whose ticks
\* continue and whose calls all return: a step of Run(), or its next call,
\* is taken in the end.
SweepInit == TaskInit /\ cfg.task = "pr" /\ cfg.repos < Len(Repositories)

PRStep ==
    \/ PRStart
    \/ \E res \in FetchResults : PRFetch(res)
    \/ \E pr \in PullRequests(now) : PREval(pr)
    \/ \E status \in LookupResults, suites \in LookupResults : PRCi(status, suites)
    \/ \E sinkOK \in BOOLEAN : PRSendReturns(sinkOK)
    \/ PRContinue
    \/ PRCleanup

SweepNext == PRStep \/ TaskAdvance

SweepSpec == SweepInit /\ [][SweepNext]_vars /\ WF_vars(PRStep)

\* Two invocations of the PR task's Run() on one instance, with the mutex.
MutexInit == TaskInit /\ cfg.task = "pr" /\ cfg.repos = 1 /\ cfg.cooldown = 1

MutexNext ==
    \/ \E g \in Invocations : MuStart(g)
    \/ \E g \in Invocations, res \in FetchResults : MuFetch(g, res)
    \/ \E g \in Invocations, pr \in PullRequests(now) : MuLockRead(g, pr)
    \/ \E g \in Invocations : MuRead(g)
    \/ \E g \in Invocations : MuUnlockRead(g)
    \/ \E g \in Invocations, status \in LookupResults, suites \in LookupResults :
          MuCi(g, status, suites)
    \/ \E g \in Invocations, sinkOK \in BOOLEAN : MuSendReturns(g, sinkOK)
    \/ \E g \in Invocations : MuLockWrite(g)
    \/ \E g \in Invocations : MuWrite(g)
    \/ \E g \in Invocations : MuUnlockWrite(g)
    \/ \E g \in Invocations : MuContinue(g)
    \/ \E g \in Invocations : MuLockSweep(g)
    \/ \E g \in Invocations : MuSweep(g)
    \/ \E g \in Invocations : MuUnlockSweep(g)
    \/ MuAdvance

MutexSpec == MutexInit /\ [][MutexNext]_vars

\* Two overlapping invocations of the PR task's Run() on one instance,
\* both within one instant of the clock.
OverlapInit == TaskInit /\ cfg.task = "pr"

OverlapNext ==
    \/ PRStart
    \/ \E res \in FetchResults : PRFetch(res)
    \/ \E pr \in PullRequests(now) : PREval(pr)
    \/ \E status \in LookupResults, suites \in LookupResults : PRCi(status, suites)
    \/ \E sinkOK \in BOOLEAN : PRSendReturns(sinkOK)
    \/ PRContinue
    \/ PRCleanup
    \/ Run2Start
    \/ \E res \in FetchResults : Run2Fetch(res)
    \/ \E pr \in PullRequests(now) : Run2Eval(pr)
    \/ \E status \in LookupResults, suites \in LookupResults : Run2Ci(status, suites)
    \/ \E sinkOK \in BOOLEAN : Run2SendReturns(sinkOK)
    \/ Run2Continue
    \/ Run2Cleanup

OverlapSpec == OverlapInit /\ [][OverlapNext]_vars

\* The dedup key built for two entities drawn from Entities.
KeyInit ==
    /\ now = 0 /\ SchedIdle /\ RetryIdle /\ AppIdle
    /\ cfg = [task |-> "none", cooldown |-> 0, repos |-> 0]
    /\ lastNotificationTime = << >>
    /\ prRun = PRIdle
    /\ telnyx = TelnyxNew
    /\ hist = [k \in Keys |-> NoHist]
    /\ prRun2 = PRIdle
    /\ \E a \in Entities, b \in Entities :
          ids = [NoIds EXCEPT !.pc = "drawn", !.a = a, !.b = b]

KeyNext ==
    \/ BuildKeyA
    \/ BuildKeyB
    \/ BuildKeyAgain

KeySpec == KeyInit /\ [][KeyNext]_vars

\* runApp on a configuration drawn from AppConfigs.
ConfigInit ==
    /\ now = 0 /\ SchedIdle /\ RetryIdle /\ TasksIdle /\ runCtx = NoCtx /\ mu = MuFree
    /\ hook = HookIdle
    /\ app \in AppConfigs

ConfigNext ==
    \/ AppGlobalInterval
    \/ AppTelnyx
    \/ AppGitHub
    \/ AppStart

ConfigSpec == ConfigInit /\ [][ConfigNext]_vars

\* One call of SendNotification.
HookInit ==
    /\ now = 0 /\ SchedIdle /\ RetryIdle /\ TasksIdle /\ runCtx = NoCtx /\ mu = MuFree
    /\ app = NoApp
    /\ \E urlOK \in BOOLEAN : hook = HookCalled(urlOK)

HookNext ==
    \/ \E kind \in {"canceled", "deadline"} : HookCancel(kind)
    \/ HookAttempt
    \/ \E outcome \in HookOutcomes : HookDoReturns(outcome)
    \/ HookBackoffElapsed
    \/ HookBackoffCancelled

HookSpec == HookInit /\ [][HookNext]_vars

\* One call of DoWithRetry, or one call of SendNotification.
WaitInit ==
    /\ now = 0 /\ SchedIdle /\ TasksIdle /\ runCtx = NoCtx /\ mu = MuFree
    /\ app = NoApp
    /\ \/ hook = HookIdle /\ \E n \in 0..MaxRetryLimit : RetryCalled(n)
       \/ RetryIdle /\ \E urlOK \in BOOLEAN : hook = HookCalled(urlOK)

WaitNext == RetryNext \/ HookNext

WaitSpec == WaitInit /\ [][WaitNext]_vars

\* Ticks of the Telnyx task, each Run() with its context.
BudgetInit ==
    /\ now = 0 /\ SchedIdle /\ RetryIdle /\ AppIdle
    /\ cfg \in [task : {"telnyx"}, cooldown : Cooldowns, repos : {Len(Repositories)}]
    /\ lastNotificationTime = << >>
    /\ prRun = PRIdle
    /\ telnyx = TelnyxNew
    /\ hist = [k \in Keys |-> NoHist]
    /\ prRun2 = PRIdle
    /\ ids = NoIds

BudgetNext ==
    \/ CtxStart
    \/ \E res \in BalanceResults : CtxBalanceReturns(res)
    \/ \E sinkOK \in BOOLEAN : CtxSendReturns(sinkOK)
    \/ CtxAdvance

BudgetSpec == BudgetInit /\ [][BudgetNext]_vars

----------------------------------------------------------------------------
(***************************************************************************)
(* Properties of the scheduler (SchedSpec)                                 *)
(***************************************************************************)

\* C1: with Start() called once, no binding ever has two invocations of its
\* Run() in progress, however long one Run() lasts.
C1_SerialExecution == \A t \in TaskIds : inRun[t] <= 1

\* A Run() that has outlasted its interval: a tick that fired during it is
\* buffered and the next fire is already due.
C1_Witness ==
    \E t \in TaskIds : loop[t] = "running" /\ inRun[t] = 1 /\ tickC[t] = 1 /\ nextFire[t] = now

\* C10: when a Run() returns an error, its goroutine goes back to its
\* select with its ticker running and no other goroutine moves; a goroutine
\* ends only by taking the stop signal at its select.
C10_ErrorKeepsLoops ==
    [][\A t \in TaskIds :
         /\ (loop[t] = "running" /\ loop'[t] # "running" /\ lastErr'[t] = "err")
               => /\ loop'[t] = "select"
                  /\ nextFire'[t] = nextFire[t] /\ nextFire[t] >= now
                  /\ \A u \in TaskIds \ {t} : loop'[u] = loop[u]
                  /\ stopper' = stopper
         /\ (loop[t] # "done" /\ loop'[t] = "done")
               => (loop[t] = "select" /\ stopper.pc = "sending" /\ stopper.idx = t)]_vars

\* A binding runs again after a Run() of it returned an error, while
\* another binding has run too.
C10_Witness ==
    \E t \in TaskIds : /\ lastErr[t] = "err" /\ loop[t] = "running" /\ runCount[t] >= 2
                       /\ \E u \in TaskIds \ {t} : runCount[u] >= 1

\* C11: once a Stop() called after Start() has returned, no Run() is in
\* progress and no binding's run count changes any more.
C11_NoRunAfterStop ==
    [][(stopper.pc = "returned" /\ stopper.afterStart)
          => \A t \in TaskIds : /\ inRun[t] = 0
                                /\ loop[t] # "running"
                                /\ runCount'[t] = runCount[t]]_vars

\* Stop() has returned with two bindings that had both run, one of them
\* with a tick left in its ticker's channel, and time has gone on.
C11_Witness ==
    /\ stopper.pc = "returned" /\ stopper.afterStart /\ stopper.n = 2
    /\ \A t \in TaskIds : runCount[t] >= 1 /\ loop[t] = "done"
    /\ \E t \in TaskIds : tickC[t] = 1
    /\ now = MaxTime

\* C12: from the moment Stop() is called (after Start()), no binding begins
\* a Run(): a loop at its select when Stop() is called ends without running
\* again, and a loop inside Run() ends when that Run() returns.
C12_NoRunOnceStopInvoked ==
    (stopper.pc \in {"sending", "returned"} /\ stopper.afterStart) => ~stopper.late

\* C13: while Stop() waits for a binding whose Run() is in progress, no time
\* passes: the Run() ends at the instant of the stop.
C13_StopInterruptsRun ==
    [][(/\ stopper.pc = "sending" /\ stopper.afterStart
        /\ \E t \in stopper.idx..stopper.n : loop[t] = "running")
          => now' = now]_vars

(***************************************************************************)
(* Properties of the scheduler's timing (TimingSpec)                       *)
(***************************************************************************)

\* C16: while nobody has called Stop(), the run count of a started binding
\* with interval I, observed for a duration D (the clock, which counts from
\* Start()), is within 1 of D \div I; and with intervals 1 and 2 observed
\* for 5 units (50, 100 and 250 ms), the first binding has run more often
\* than the second and both have run.
C16_RunCountTracksInterval ==
    stopper.pc = "idle" =>
        /\ \A t \in TaskIds : TickerLive(t) =>
              LET expected == now \div tasks[t].interval
              IN  runCount[t] >= expected - 1 /\ runCount[t] <= expected + 1
        /\ (/\ Len(tasks) = 2 /\ TickerLive(1) /\ TickerLive(2)
            /\ tasks[1].interval = 1 /\ tasks[2].interval = 2 /\ now = 5)
              => (runCount[1] > runCount[2] /\ runCount[2] > 0)

\* Two bindings at intervals 1 and 2 have been observed for 5 units and
\* have run 5 times and twice.
C16_Witness ==
    /\ stopper.pc = "idle" /\ now = 5 /\ Len(tasks) = 2
    /\ tasks[1].interval = 1 /\ tasks[2].interval = 2
    /\ TickerLive(1) /\ TickerLive(2)
    /\ runCount = <<5, 2>>

(***************************************************************************)
(* Properties of DoWithRetry (RetrySpec)                                   *)
(***************************************************************************)

\* C6: a call with MaxRetries = N never issues more than N+1 requests, and
\* has issued exactly N+1 when it returns after transient failures only
\* with its context never cancelled.
C6_AttemptBound ==
    /\ retry.requests <= retry.maxRetries + 1
    /\ (retry.pc = "done" /\ retry.allTransient /\ retry.ctxErr = "none")
          => retry.requests = retry.maxRetries + 1

C6_Witness ==
    /\ retry.pc = "done" /\ retry.allTransient /\ retry.ctxErr = "none"
    /\ retry.maxRetries >= 2 /\ retry.requests = retry.maxRetries + 1

\* C7: when the first attempt yields a 4xx status other than 429, the call
\* has returned with one request issued and no backoff wait begun.
PermanentStatus(status) == status >= 400 /\ status < 500 /\ status # 429

C7_PermanentFailsAtOnce ==
    PermanentStatus(retry.first.resp)
        => (retry.pc = "done" /\ retry.requests = 1 /\ retry.waits = 0)

C7_Witness ==
    /\ retry.first.resp = 404 /\ retry.pc = "done" /\ retry.maxRetries >= 1
    /\ retry.retResp = 404

\* C8: once the context is cancelled during a backoff wait, no further
\* request is issued and the wait is not completed: the call can only
\* return, and it returns the context's error with no response.
C8_CancelInBackoff ==
    retry.cancelledIn = "backoff"
        => /\ retry.requests = retry.reqAtCancel
           /\ retry.waitsDone = retry.waitsDoneAtCancel
           /\ retry.pc \in {"backoff", "done"}
           /\ retry.pc = "done" => (retry.retErr = retry.ctxErr /\ retry.retResp = 0)

C8_Witness ==
    /\ retry.cancelledIn = "backoff" /\ retry.pc = "done"
    /\ retry.retErr \in {"canceled", "deadline"}
    /\ retry.requests <= retry.maxRetries

\* C9: a call that returns after its last permitted attempt failed
\* transiently returns an error: the network error of that attempt, or
\* else an error for its status.
C9_ExhaustionIsError ==
    (/\ retry.pc = "done"
     /\ retry.requests = retry.maxRetries + 1
     /\ SpecTransient([resp |-> retry.resp, err |-> retry.lastErr]))
        => /\ retry.retErr # "nil"
           /\ retry.lastErr # "nil" => retry.retErr = retry.lastErr

(***************************************************************************)
(* Properties of the tasks (TaskSpec)                                      *)
(***************************************************************************)
\* The cooldown has elapsed since the sink last succeeded for key k, or it
\* never succeeded for k.
Elapsed(k) == hist[k] = None \/ now - hist[k] >= cfg.cooldown

\* C2: the sink is called for a key only if the cooldown has elapsed since
\* its last success for that key (or it never succeeded for it), and an
\* alertable entity is held back by the cooldown only if it has not.
C2_CooldownBetweenSends ==
    /\ [](/\ prRun.pc \in {"ci", "send"} => Elapsed(prRun.key)
          /\ (prRun.pc = "next" /\ prRun.how = "cooldown") => ~Elapsed(prRun.key)
          /\ telnyx.pc = "send" => Elapsed(TelnyxKey))
    /\ [][(telnyx.pc = "balance" /\ telnyx'.ret = "nil:cooldown") => ~Elapsed(TelnyxKey)]_vars

\* The sink is called again for a key at the very instant the cooldown has
\* elapsed since its previous success.
C2_Witness ==
    /\ prRun.pc = "send" /\ hist[prRun.key] # None
    /\ now - hist[prRun.key] = cfg.cooldown /\ cfg.cooldown = 4

\* The gate's answer for a key of the PR task's map / for the Telnyx field.
Permits(k) ==
    k \notin DOMAIN lastNotificationTime \/ now - lastNotificationTime[k] >= cfg.cooldown
TelnyxPermits ==
    telnyx.lastNotificationTime = None \/ now - telnyx.lastNotificationTime >= cfg.cooldown

\* C3: the gate permits a key with no recorded time, denies it while
\* now - recorded < cooldown and permits it from now - recorded = cooldown
\* on; deciding leaves the record as it was.
C3_GateDecision ==
    [][/\ prRun.pc = "eval" =>
            /\ lastNotificationTime' = lastNotificationTime
            /\ prRun'.pc = "ci" => Permits(prRun'.key)
            /\ (prRun'.pc = "next" /\ prRun'.how = "cooldown") => ~Permits(prRun'.key)
       /\ telnyx.pc = "balance" =>
            /\ telnyx'.lastNotificationTime = telnyx.lastNotificationTime
            /\ telnyx'.pc = "send" => TelnyxPermits
            /\ telnyx'.ret = "nil:cooldown" => ~TelnyxPermits]_vars

\* The gate has permitted a key at the boundary now = recorded + cooldown.
C3_Witness ==
    /\ prRun.pc = "ci" /\ prRun.key \in DOMAIN lastNotificationTime
    /\ now - lastNotificationTime[prRun.key] = cfg.cooldown

\* C4: a sink error leaves the record of its key as it was and the gate
\* open for that key; an open gate stays open until a success of the sink
\* for that key is recorded.
C4_FailedSendNotRecorded ==
    [][/\ (prRun.pc = "send" /\ prRun'.how = "senderr")
            => (lastNotificationTime' = lastNotificationTime /\ Permits(prRun.key)')
       /\ \A k \in PRKeys : (Permits(k) /\ ~Permits(k)')
            => (prRun.pc = "send" /\ prRun.key = k /\ prRun'.how = "sent")
       /\ (telnyx.pc = "send" /\ telnyx'.ret = "err:send")
            => (telnyx'.lastNotificationTime = telnyx.lastNotificationTime /\ TelnyxPermits')
       /\ (TelnyxPermits /\ ~TelnyxPermits')
            => (telnyx.pc = "send" /\ telnyx'.ret = "nil:sent")]_vars

\* The sink has just failed for a key that has an old recorded time, under
\* the long cooldown.
C4_Witness ==
    /\ prRun.pc = "next" /\ prRun.how = "senderr" /\ cfg.cooldown = 4
    /\ prRun.key \in DOMAIN lastNotificationTime

\* C5: the sweep removes exactly the entries older than both the cooldown
\* and the 7-day floor, and keeps every other entry with its time.
C5_CleanupExact ==
    [][prRun.pc = "cleanup" =>
         /\ DOMAIN lastNotificationTime' \subseteq DOMAIN lastNotificationTime
         /\ \A k \in DOMAIN lastNotificationTime :
              LET age == now - lastNotificationTime[k]
              IN  IF age > cfg.cooldown /\ age > MinCleanupAge
                  THEN k \notin DOMAIN lastNotificationTime'
                  ELSE k \in DOMAIN lastNotificationTime'
                       /\ lastNotificationTime'[k] = lastNotificationTime[k]]_vars

\* A sweep under a cooldown shorter than the floor has just removed an
\* entry aged just over the floor and kept one aged less than half the
\* cooldown.
C5_Witness ==
    /\ prRun.pc = "idle" /\ cfg.cooldown < MinCleanupAge
    /\ \E k \in PRKeys : /\ k \notin DOMAIN lastNotificationTime
                         /\ hist[k] # None /\ now - hist[k] = MinCleanupAge + 1
    /\ \E k \in DOMAIN lastNotificationTime : 2 * (now - lastNotificationTime[k]) <= cfg.cooldown

\* Where Run() is after the loop body of the entity in hand has ended: the
\* next pull request of the list, else the next repository, else the sweep.
AtNextPR(r, r2) == r2.pc = "eval" /\ r2.repo = r.repo /\ r2.prs = r.prs - 1
AtNextRepo(r, r2) ==
    IF r.repo < cfg.repos
    THEN r2.pc = "fetch" /\ r2.repo = r.repo + 1
    ELSE r2.pc = "cleanup"

\* C14: after a fetch that failed Run() goes on with the next repository
\* (the sweep after the last); after a send that failed it goes on with the
\* next pull request of the list (else the next repository); Run() ends
\* only after the sweep, and it returns nil, failures or not.
C14_FailureDoesNotStopRun ==
    [][/\ (prRun.pc = "fetch" /\ prRun' # prRun /\ prRun'.how = "fetcherr")
            => AtNextRepo(prRun, prRun')
       /\ (prRun.pc = "next" /\ prRun.how = "senderr" /\ prRun' # prRun)
            => IF prRun.prs > 1 THEN AtNextPR(prRun, prRun') ELSE AtNextRepo(prRun, prRun')
       /\ (prRun.pc # "idle" /\ prRun'.pc = "idle")
            => (prRun.pc = "cleanup" /\ prRun'.ret = "nil")
       /\ (prRun.pc \notin {"idle", "cleanup"} /\ prRun.fetchFailed)
            => prRun'.pc # "idle"]_vars

\* After the fetch of the first repository failed, Run() has evaluated the
\* second repository's list: the sink has just failed for its first pull
\* request and the second is still to come.
C14_Witness ==
    /\ prRun.pc = "next" /\ prRun.how = "senderr" /\ prRun.fetchFailed
    /\ prRun.repo = 2 /\ prRun.prs = 2

\* C15: a pull request that has passed the filters and the gate goes from
\* its two CI lookups to the sink, whatever the lookups returned, and from
\* the sink to the end of its loop body: the sink is called once for it.
\* The message is decorated only if a lookup reported a failure, so never
\* when both lookups failed.
C15_LookupErrorStillSends ==
    [][/\ (prRun.pc = "ci" /\ prRun' # prRun)
            => (prRun'.pc = "send" /\ prRun'.key = prRun.key /\ prRun'.prs = prRun.prs)
       /\ (prRun.pc = "send" /\ prRun' # prRun) => prRun'.pc = "next"
       /\ (prRun'.pc = "send" /\ prRun.pc # "send") => prRun.pc = "ci"
       /\ (prRun.pc = "send" /\ prRun.lookupErrs = 2) => ~prRun.ciMsg]_vars

\* The sink is being called with an undecorated message after both lookups
\* failed, for the second pull request of a list.
C15_Witness ==
    /\ prRun.pc = "send" /\ prRun.lookupErrs = 2 /\ ~prRun.ciMsg /\ prRun.prs = 1
    /\ hist[prRun.key] # None

\* C18: every entry the sweep removes has age >= cooldown, and for every
\* key the gate answers after the sweep what it answered before it.
C18_CleanupKeepsCooldown ==
    [][prRun.pc = "cleanup" =>
         \A k \in PRKeys :
            /\ (k \in DOMAIN lastNotificationTime /\ k \notin DOMAIN lastNotificationTime')
                  => now - lastNotificationTime[k] >= cfg.cooldown
            /\ Permits(k)' <=> Permits(k)]_vars

\* Under the cooldown longer than the 7-day floor, a sweep has removed an
\* entry and the map still holds one that is inside its cooldown window.
C18_Witness ==
    /\ prRun.pc = "idle" /\ prRun.ret = "nil" /\ cfg.cooldown > MinCleanupAge
    /\ \E k \in PRKeys : k \notin DOMAIN lastNotificationTime /\ hist[k] # None
    /\ \E k \in DOMAIN lastNotificationTime : now - lastNotificationTime[k] < cfg.cooldown

\* C19: a key is in the map exactly if the sink has succeeded for it and no
\* sweep has removed it since (an entry is missing after a success only
\* when it has outlived the sweep's threshold), and the time stored is that
\* of the most recent success of the sink for the key.
C19_MapMirrorsSends ==
    /\ DOMAIN lastNotificationTime \subseteq PRKeys
    /\ \A k \in PRKeys :
          /\ k \in DOMAIN lastNotificationTime
                => (hist[k] # None /\ lastNotificationTime[k] = hist[k])
          /\ (k \notin DOMAIN lastNotificationTime /\ hist[k] # None)
                => now - hist[k] > CleanupThreshold(cfg.cooldown)

\* The map holds a key the sink has just succeeded for, while another key
\* that had been recorded has been swept away.
C19_Witness ==
    /\ prRun.pc = "next" /\ prRun.how = "sent" /\ now >= 3
    /\ prRun.key \in DOMAIN lastNotificationTime /\ lastNotificationTime[prRun.key] = now
    /\ \E k \in PRKeys : k \notin DOMAIN lastNotificationTime /\ hist[k] # None

(***************************************************************************)
(* Properties of overlapping invocations (OverlapSpec)                     *)
(***************************************************************************)

\* C17: two overlapping invocations of Run() never both have passed the
\* cooldown check for one key and both be calling the sink for it.
C17_CheckAndRecordAtomic ==
    ~(prRun.pc = "send" /\ prRun2.pc = "send" /\ prRun.key = prRun2.key)

(***************************************************************************)
(* Properties of the dedup key (KeySpec)                                   *)
(***************************************************************************)
HasSlash(name) == \E i \in 1..Len(name) : name[i] = "/"

\* The key of an entity is the same each time it is built, and the keys of
\* two different entities differ.
KeysDistinguish ==
    /\ ids.again = ids.keyA
    /\ ids.a # ids.b => ids.keyA # ids.keyB

\* C20 (as stated): over all owner names, repository names and numbers, the
\* same entity always yields the same key and two different entities never
\* yield the same key.
C20_KeyInjective == ids.pc = "done" => KeysDistinguish

\* C20 (amended): the same holds for entities whose owner names contain
\* no "/".
C20_KeyInjectiveNoSlashOwner ==
    (ids.pc = "done" /\ ~HasSlash(ids.a.Owner) /\ ~HasSlash(ids.b.Owner)) => KeysDistinguish

\* Keys have been built for repository "a1" number 2 and repository "a"
\* number 12 of one owner, and they differ.
C20_Witness ==
    /\ ids.pc = "done" /\ ids.a.Owner = ids.b.Owner /\ ~HasSlash(ids.a.Owner)
    /\ ids.a.Repo = <<"a", "1">> /\ ids.a.Number = 2
    /\ ids.b.Repo = <<"a">> /\ ids.b.Number = 12
    /\ ids.keyA # ids.keyB

(***************************************************************************)
(* Properties of the PR task's filters (TaskSpec)                          *)
(***************************************************************************)
\* The pull request pr of the repository rc is one the claim lets through
\* at instant t: not a draft, its author listed (or no list), and not
\* updated for the stale threshold at least.
Alertable(pr, rc, t) ==
    /\ ~pr.Draft
    /\ Len(rc.Authors) = 0 \/ \E i \in 1..Len(rc.Authors) : EqualFold(pr.Login, rc.Authors[i])
    /\ t - pr.UpdatedAt >= StaleThreshold

\* C21: the CI lookups and the sink are reached only for a pull request
\* that is not a draft, matches the author list and is stale; one that
\* fails a filter ends its loop body with the map as it was and the sink
\* not called.
C21_OnlyFilteredAreSent ==
    /\ [](prRun.pc = "ci" => Alertable(prRun.pr, Repositories[prRun.repo], now))
    /\ [][(prRun'.pc = "send" /\ prRun.pc # "send")
              => (prRun.pc = "ci" /\ prRun'.key = prRun.key)]_vars
    /\ [][(prRun.pc = "eval" /\ prRun' # prRun
            /\ ~Alertable(prRun'.pr, Repositories[prRun.repo], now))
              => /\ prRun'.pc = "next" /\ prRun'.how \in {"draft", "author", "fresh"}
                 /\ lastNotificationTime' = lastNotificationTime
                 /\ hist' = hist]_vars
    /\ [][(prRun.pc = "next" /\ prRun.how \in {"draft", "author", "fresh"} /\ prRun' # prRun)
              => /\ prRun'.pc \in {"eval", "fetch", "cleanup"}
                 /\ lastNotificationTime' = lastNotificationTime
                 /\ hist' = hist]_vars

\* The CI lookups that precede the sink are in progress, and have been for
\* a while, for a stale pull request of the second repository whose author
\* is listed there in another case.
C21_Witness ==
    /\ prRun.pc = "ci" /\ prRun.repo = 2 /\ prRun.pr.Login = <<"A">>
    /\ now - prRun.pr.UpdatedAt > StaleThreshold + 1

\* C22: a pull request passes the staleness filter only when the time
\* since its last update is strictly more than the stale threshold.
C22_ExactlyAtThresholdSkipped ==
    [][(prRun.pc = "eval" /\ prRun'.pc = "ci")
          => now - prRun'.pr.UpdatedAt > StaleThreshold]_vars

(***************************************************************************)
(* Properties of registration (SchedSpec)                                  *)
(***************************************************************************)
\* C23: a step that changes the list of bindings appends one binding after
\* the earlier ones, in their order, and changes nothing else of the
\* scheduler: no goroutine, ticker or Run() comes with it; HasTasks() is
\* true afterwards and is false exactly while the list is empty; and no
\* Run() has begun in a scheduler whose Start() has not been called.
C23_ScheduleTaskOnlyAppends ==
    /\ [][tasks' # tasks =>
            /\ Len(tasks') = Len(tasks) + 1
            /\ SubSeq(tasks', 1, Len(tasks)) = tasks
            /\ HasTasks'
            /\ started' = started /\ stopper' = stopper /\ now' = now
            /\ \A t \in TaskIds :
                    /\ loop'[t] = loop[t] /\ tickC'[t] = tickC[t]
                    /\ nextFire'[t] = nextFire[t] /\ inRun'[t] = inRun[t]
                    /\ runCount'[t] = runCount[t] /\ lastErr'[t] = lastErr[t]
            /\ loop'[Len(tasks')] = "none" /\ tickC'[Len(tasks')] = 0
            /\ inRun'[Len(tasks')] = 0 /\ runCount'[Len(tasks')] = 0]_vars
    /\ [](HasTasks <=> tasks # <<>>)
    /\ [](~started => \A t \in TaskIds :
                        loop[t] = "none" /\ inRun[t] = 0 /\ runCount[t] = 0)

\* Two bindings of different intervals are registered, the longer first;
\* more than both intervals have passed without Start(), and no Run() has
\* begun.
C23_Witness ==
    /\ tasks = <<[interval |-> 2], [interval |-> 1]>>
    /\ HasTasks /\ ~started /\ now > 2
    /\ \A t \in TaskIds : runCount[t] = 0

(***************************************************************************)
(* Properties of the configured intervals (ConfigSpec)                     *)
(***************************************************************************)
\* C24: every binding registered with the scheduler has a positive
\* interval, whatever the interval strings of the configuration.
C24_IntervalsPositive == \A t \in TaskIds : tasks[t].interval > 0

(***************************************************************************)
(* Properties of SendNotification (HookSpec)                               *)
(***************************************************************************)
\* C25: a call that has returned has returned nil exactly when one of its
\* attempts received a response with a status from 200 to 299, and such a
\* response ends the call.
C25_NilIffSuccessStatus ==
    /\ hook.pc = "done" => (hook.ret = "nil" <=> hook.got2xx)
    /\ hook.got2xx => hook.pc = "done"

\* The call has returned nil after a third attempt, the first two having
\* failed and been retried.
C25_Witness ==
    /\ hook.pc = "done" /\ hook.ret = "nil" /\ hook.got2xx
    /\ hook.requests = 3 /\ hook.lastErr = "timeout"

(***************************************************************************)
(* Properties of the Telnyx task (TaskSpec)                                *)
(***************************************************************************)
\* C26: when GetBalance returns an error, Run() returns an error without
\* calling the sink, and lastNotificationTime and the sink's history are
\* as they were.
C26_BalanceErrorEndsRun ==
    /\ [](telnyx.balanceErr => telnyx.pc = "idle" /\ telnyx.ret = "err:balance")
    /\ [][(telnyx'.balanceErr /\ ~telnyx.balanceErr)
            => /\ telnyx.pc = "balance"
               /\ telnyx'.lastNotificationTime = telnyx.lastNotificationTime
               /\ hist' = hist]_vars

\* GetBalance has failed at an instant at which an alert was due: an
\* earlier alert was sent and the cooldown has elapsed since.
C26_Witness ==
    /\ telnyx.balanceErr /\ telnyx.ret = "err:balance"
    /\ telnyx.lastNotificationTime # None
    /\ now - telnyx.lastNotificationTime >= cfg.cooldown

\* C27: when GetBalance returns a balance below the threshold, Run()
\* returns nil without calling the sink and with lastNotificationTime as it
\* was if that time is set and less than the cooldown has elapsed since;
\* otherwise, and always when that time was never set, it calls the sink.
C27_CooldownSkipsSink ==
    [][(telnyx.pc = "balance" /\ telnyx' # telnyx /\ ~telnyx'.balanceErr
          /\ telnyx'.lastObservedBalance < Threshold)
        => IF telnyx.lastNotificationTime # None
              /\ now - telnyx.lastNotificationTime < cfg.cooldown
           THEN /\ telnyx'.pc = "idle" /\ telnyx'.ret = "nil:cooldown"
                /\ telnyx'.lastNotificationTime = telnyx.lastNotificationTime
                /\ hist' = hist
           ELSE telnyx'.pc = "send"]_vars

\* A tick that found the balance below the threshold within the cooldown
\* of an earlier alert has returned nil.
C27_Witness ==
    /\ telnyx.pc = "idle" /\ telnyx.ret = "nil:cooldown"
    /\ telnyx.lastObservedBalance < Threshold
    /\ telnyx.lastNotificationTime # None
    /\ now - telnyx.lastNotificationTime < cfg.cooldown
    /\ hist[TelnyxKey] = telnyx.lastNotificationTime

(***************************************************************************)
(* Properties of the retry decision and of the waits (RetrySpec, WaitSpec) *)
(***************************************************************************)
\* The outcome of the most recent attempt of the call.
LastOutcome == [resp |-> retry.resp, err |-> retry.lastErr]

\* C28: a request after the first is issued only after a transient outcome
\* (status 429, 500, 502, 503 or 504, or a timeout), with an attempt
\* remaining and the context not cancelled; and after such an outcome with
\* an attempt remaining the call goes on to the next request unless the
\* context is cancelled: it waits, the wait ends the call only by
\* cancellation, and so does the top of the loop after it.
C28_RetryIffTransient ==
    /\ [][(retry'.requests = retry.requests + 1 /\ retry.requests >= 1)
            => /\ SpecTransient(LastOutcome)
               /\ retry.ctxErr = "none"
               /\ retry.requests = retry.attempt
               /\ retry.attempt <= retry.maxRetries]_vars
    /\ [][(retry.pc = "do" /\ retry' # retry /\ retry'.pc \in {"backoff", "done"})
            => (retry'.pc = "backoff"
                  <=> /\ retry.attempt < retry.maxRetries
                      /\ \/ SpecTransient(LastOutcome')
                         \/ retry.ctxErr # "none" /\ retry'.lastErr = "ctx_deadline")]_vars
    /\ [][(retry.pc = "backoff" /\ retry' # retry)
            => IF retry.ctxErr = "none"
               THEN retry'.pc = "check" \/ (retry'.pc = "backoff" /\ retry'.ctxErr # "none")
               ELSE retry'.pc = "done" /\ retry'.requests = retry.requests]_vars
    /\ [][(retry.pc = "check" /\ retry.requests >= 1 /\ retry'.pc = "done")
            => retry.ctxErr # "none"]_vars

\* A third request is in flight, after a 503 and then a timeout.
C28_Witness ==
    /\ retry.pc = "do" /\ retry.requests = 3 /\ retry.ctxErr = "none"
    /\ retry.first.resp = 503 /\ retry.lastErr = "timeout"

\* The smaller of two durations.
Min(a, b) == IF a < b THEN a ELSE b

\* C29: the wait that follows 0-indexed attempt k is
\* min(MaxBackoff, InitialBackoff * BackoffMultiplier^k), in DoWithRetry
\* and in SendNotification; no wait exceeds MaxBackoff and a wait is never
\* shorter than the one before it in the same call.
C29_WaitIsCappedExponential ==
    /\ [](retry.pc = "backoff" =>
            /\ retry.backoff
                 = Min(MaxBackoff, InitialBackoff * Pow(BackoffMultiplier, retry.attempt))
            /\ retry.backoff <= MaxBackoff)
    /\ [](hook.pc = "backoff" =>
            /\ hook.backoff
                 = Min(WebhookMaxBackoff,
                       WebhookInitialBackoff * Pow(WebhookBackoffMultiplier, hook.attempt))
            /\ hook.backoff <= WebhookMaxBackoff)
    /\ [][(retry.pc = "do" /\ retry'.pc = "backoff") => retry'.backoff >= retry.backoff]_vars
    /\ [][(hook.pc = "do" /\ hook'.pc = "backoff") => hook'.backoff >= hook.backoff]_vars

\* The call waits after its sixth attempt, for MaxBackoff: the exponential
\* is above the cap.
C29_Witness ==
    /\ retry.pc = "backoff" /\ retry.attempt = 5 /\ retry.waits = 6
    /\ retry.backoff = MaxBackoff
    /\ InitialBackoff * Pow(BackoffMultiplier, retry.attempt) > MaxBackoff

\* C30: once the context of the call is done, the call issues no further
\* request, and when it has returned it has returned an error.
C30_CancelEndsInError ==
    retry.ctxErr # "none"
        => /\ retry.requests = retry.reqAtCancel
           /\ retry.pc = "done" => retry.retErr # "nil"

(***************************************************************************)
(* Properties of the response bodies (WaitSpec, RetrySpec)                 *)
(***************************************************************************)
\* C31: a call that waits before a further attempt, or is at the top of
\* its loop, or issues a further request, after an attempt that received a
\* response, has drained and closed the body of that response; so no body
\* of an earlier attempt is open while a request is in flight.
C31_BodyClosedBeforeRetry ==
    /\ []((retry.pc \in {"backoff", "check"} /\ retry.resp # 0) => retry.bodyClosed)
    /\ []((hook.pc \in {"backoff", "head"} /\ hook.resp # 0) => hook.bodyClosed)
    /\ [][(retry'.requests = retry.requests + 1 /\ retry.resp # 0) => retry.bodyClosed]_vars
    /\ [][(hook'.requests = hook.requests + 1 /\ hook.resp # 0) => hook.bodyClosed]_vars

\* A second request is in flight after a 503 response whose body is closed.
C31_Witness ==
    /\ retry.pc = "do" /\ retry.requests = 2
    /\ retry.resp = 503 /\ retry.bodyClosed

\* C38: a call that has returned a response with a nil error has left the
\* body of that response open.
C38_ReturnedBodyOpen ==
    (retry.pc = "done" /\ retry.retResp # 0 /\ retry.retErr = "nil") => ~retry.bodyClosed

(***************************************************************************)
(* Properties of the deadline of a tick (BudgetSpec)                       *)
(***************************************************************************)
\* C32: each external call of a tick lasts no longer than the timeout, and
\* has the whole timeout to itself: the deadline of the call of the sink is
\* one timeout after that call began, whatever GetBalance took.
C32_BudgetPerCall ==
    /\ telnyx.pc = "balance" => now <= runCtx.startAt + RunTimeout
    /\ telnyx.pc = "send" => /\ now <= runCtx.sendAt + RunTimeout
                             /\ runCtx.deadline = runCtx.sendAt + RunTimeout

(***************************************************************************)
(* Properties of the ticks of one binding (SchedSpec)                      *)
(***************************************************************************)
\* C33: at most one tick is pending for a binding; a Run() begins only by
\* taking the pending tick, one Run() for the tick; however many fires
\* occur during a Run() one tick is pending, and one is pending when a
\* Run() that saw two fires or more returns, so that one Run() follows it
\* and the next needs a new fire.
C33_TicksNotQueued ==
    /\ [](\A t \in TaskIds : tickC[t] \in {0, 1})
    /\ [](\A t \in TaskIds : missed[t] >= 1 => (loop[t] = "running" /\ tickC[t] = 1))
    /\ [][\A t \in TaskIds :
            (runCount'[t] # runCount[t] \/ tickC'[t] < tickC[t])
              => /\ tickC[t] = 1 /\ tickC'[t] = 0
                 /\ runCount'[t] = runCount[t] + 1
                 /\ inRun'[t] = inRun[t] + 1]_vars
    /\ [][\A t \in TaskIds :
            (loop[t] = "running" /\ loop'[t] # "running" /\ missed[t] = 2)
              => tickC'[t] = 1 /\ runCount'[t] = runCount[t]]_vars

\* A Run() in progress has overrun two intervals or more: two fires or
\* more have occurred since it began, and one tick is pending.
C33_Witness ==
    \E t \in TaskIds :
        /\ loop[t] = "running" /\ inRun[t] = 1
        /\ missed[t] = 2 /\ tickC[t] = 1

(***************************************************************************)
(* Properties of the bindings together (SchedSpec)                         *)
(***************************************************************************)
\* C34: whatever the other bindings are doing, a goroutine at its select
\* with a tick pending can take it and begin Run(), a due ticker can fire,
\* and a Run() in progress can return; and a step of one binding's loop
\* leaves the loop, ticks and counts of every other binding as they were.
C34_LoopsIndependent ==
    /\ [](\A t \in TaskIds :
            /\ (loop[t] = "select" /\ tickC[t] = 1) => ENABLED LoopTick(t)
            /\ (TickerLive(t) /\ nextFire[t] = now) => ENABLED TickerFire(t)
            /\ loop[t] = "running" => ENABLED RunReturn(t, "nil"))
    /\ [][\A t \in TaskIds :
            (runCount'[t] # runCount[t] \/ inRun'[t] # inRun[t])
              => \A u \in TaskIds \ {t} :
                    /\ loop'[u] = loop[u] /\ tickC'[u] = tickC[u]
                    /\ inRun'[u] = inRun[u] /\ runCount'[u] = runCount[u]
                    /\ nextFire'[u] = nextFire[u]]_vars

\* The first Run() of one binding is still in progress, two fires or more
\* after it began, while the second Run() of another binding is in
\* progress.
C34_Witness ==
    \E t \in TaskIds, u \in TaskIds :
        /\ t # u
        /\ loop[t] = "running" /\ runCount[t] = 1 /\ missed[t] = 2
        /\ loop[u] = "running" /\ runCount[u] = 2
        /\ inRun[t] = 1 /\ inRun[u] = 1

(***************************************************************************)
(* Properties of shutdown (LiveSpec)                                       *)
(***************************************************************************)
\* C35: a call of Stop() on a scheduler whose goroutines are all alive
\* returns in the end; a Stop() that has returned has left every loop it
\* ranged over terminated; and a Stop() called with no binding registered
\* returns in the step that calls it.
C35_StopReturns ==
    /\ (stopper.pc = "sending"
          /\ \A t \in stopper.idx..stopper.n : loop[t] \in {"select", "running"})
         ~> (stopper.pc = "returned" /\ \A t \in 1..stopper.n : loop[t] = "done")
    /\ [](stopper.pc = "returned" => \A t \in 1..stopper.n : loop[t] = "done")
    /\ [][(stopper.pc \in {"idle", "returned"} /\ stopper'.pc \in {"sending", "returned"}
             /\ stopper' # stopper /\ stopper.late' = FALSE /\ Len(tasks) = 0)
            => stopper'.pc = "returned"]_vars

\* Stop(), called after Start() while a Run() of each of two bindings had
\* begun, has returned with both loops terminated.
C35_Witness ==
    /\ stopper.pc = "returned" /\ stopper.n = 2 /\ stopper.afterStart
    /\ \A t \in 1..2 : loop[t] = "done" /\ runCount[t] >= 1 /\ inRun[t] = 0

\* C37: the send of Stop() completes only against a goroutine waiting at
\* its select.  A Stop() over at least one binding has returned only after
\* Start(); a goroutine that has returned stays returned; a Stop() whose
\* next send is to a binding with no goroutine (none launched yet and no
\* Start() in this step, or the goroutine has returned) stays at that
\* send; and the Stop() called after one that returned begins with such a
\* send.
C37_StopBlocksWithoutLoops ==
    /\ []((stopper.pc = "returned" /\ stopper.n >= 1) => started)
    /\ [][\A t \in TaskIds : loop[t] = "done" => loop'[t] = "done"]_vars
    /\ [][(stopper.pc = "sending"
             /\ \/ loop[stopper.idx] = "done"
                \/ loop[stopper.idx] = "none" /\ started' = started)
            => (stopper'.pc = "sending" /\ stopper'.idx = stopper.idx)]_vars
    /\ [][(stopper.pc = "returned" /\ stopper.n >= 1 /\ stopper'.pc # "returned")
            => (stopper'.pc = "sending" /\ stopper'.idx = 1 /\ loop'[1] = "done")]_vars

\* A second Stop() is at its first send; the goroutine of that binding
\* ran the task and returned on the first Stop().
C37_Witness ==
    /\ started /\ stopper.pc = "sending" /\ stopper.idx = 1 /\ stopper.n = 2
    /\ \A t \in 1..2 : loop[t] = "done" /\ runCount[t] >= 1

(***************************************************************************)
(* Properties of the webhook's attempts (HookSpec)                         *)
(***************************************************************************)
\* C39: one call of SendNotification sends at most MaxRetries+1 requests;
\* the top of the loop is never reached with the attempts used up, so
\* neither return after the loop is taken; a 4xx response ends the call
\* with the status error and no further request; and a further attempt
\* follows only a timeout or a status of 500 or more.
C39_AttemptsBounded ==
    /\ [](hook.requests <= WebhookMaxRetries + 1)
    /\ [](hook.pc = "head" => hook.attempt <= WebhookMaxRetries)
    /\ [](hook.ret # "err:retries")
    /\ [][(hook.pc = "do" /\ hook' # hook /\ hook'.pc # "do" /\ hook'.resp \in 400..499)
            => (hook'.pc = "done" /\ hook'.ret = "err:status"
                /\ hook'.requests = hook.requests)]_vars
    /\ []((hook.pc = "done" /\ hook.resp \in 400..499) => hook.ret = "err:status")
    /\ [][(hook.pc = "do" /\ hook'.pc = "backoff")
            => \/ hook'.resp >= 500
               \/ hook'.resp = 0 /\ IsTimeout(hook'.lastErr)]_vars
    /\ [][(hook'.requests > hook.requests /\ hook.requests >= 1)
            => /\ hook'.requests = hook.requests + 1
               /\ hook.attempt >= 1
               /\ \/ hook.resp >= 500
                  \/ hook.resp = 0 /\ IsTimeout(hook.lastErr)]_vars

\* The fourth request, sent after three retries, was answered 429 and the
\* call has returned the status error.
C39_Witness ==
    /\ hook.pc = "done" /\ hook.ret = "err:status" /\ hook.resp = 429
    /\ hook.requests = WebhookMaxRetries + 1 /\ hook.attempt = WebhookMaxRetries

(***************************************************************************)
(* Properties of the sweep over time (SweepSpec)                           *)
(***************************************************************************)
\* No entry of the map is older than the larger of the cooldown and the
\* 7-day floor.
NoneOverAge ==
    \A k \in DOMAIN lastNotificationTime :
        now - lastNotificationTime[k]
            <= (IF cfg.cooldown > MinCleanupAge THEN cfg.cooldown ELSE MinCleanupAge)

\* C36: Run() returns only through the sweep, whatever its fetches did and
\* with no repository configured; right after the sweep no entry is over
\* age; and with ticks continuing a state with no entry over age comes
\* again and again, so a key over age that is not notified anew is removed.
C36_SweepEveryRun ==
    /\ [][(prRun.pc # "idle" /\ prRun'.pc = "idle")
            => (prRun.pc = "cleanup" /\ NoneOverAge')]_vars
    /\ [][(prRun.pc \in {"fetch", "next"} /\ prRun.repo = cfg.repos
             /\ prRun'.repo # prRun.repo) => prRun'.pc = "cleanup"]_vars
    /\ [][(prRun.pc = "idle" /\ prRun'.pc # "idle" /\ cfg.repos = 0)
            => prRun'.pc = "cleanup"]_vars
    /\ (prRun.pc # "idle") ~> (prRun.pc = "cleanup")
    /\ []<>NoneOverAge
    /\ [][\A k \in PRKeys :
             (k \in DOMAIN lastNotificationTime /\ k \notin DOMAIN lastNotificationTime')
               => (prRun.pc = "cleanup" /\ hist'[k] = lastNotificationTime[k])]_vars

\* A Run() all of whose fetches failed has returned, and its sweep removed
\* a key that was notified one unit more than the threshold ago.
C36_Witness ==
    /\ prRun.pc = "idle" /\ prRun.ret = "nil" /\ prRun.fetchFailed /\ ~prRun.fetchOK
    /\ cfg.cooldown < MinCleanupAge
    /\ \E k \in PRKeys : /\ k \notin DOMAIN lastNotificationTime
                         /\ hist[k] # None /\ now - hist[k] = MinCleanupAge + 1

(***************************************************************************)
(* Properties of the mutex (MutexSpec)                                     *)
(***************************************************************************)
\* The positions of Run() between a Lock() and its Unlock(), and those
\* inside a call of the GitHub client or of the sink.
InCritical(g) == RunOf(g).pc \in {"locked_r", "read", "locked_w", "written", "locked_c", "swept"}
InCall(g) == RunOf(g).pc \in {"fetch", "ci", "send"}

\* C40: the map is read, written and swept only by the invocation that
\* holds the mutex, at most one invocation is between a Lock() and its
\* Unlock(), and no invocation holds the mutex while it is inside a call
\* of the GitHub client or of the sink, or when it calls one.
C40_MapUnderMutex ==
    /\ [](\A g \in Invocations : InCritical(g) <=> mu.holder = g)
    /\ [](\A g \in Invocations : InCall(g) => mu.holder # g)
    /\ [][\A g \in Invocations :
            /\ mu.seen'[g] # mu.seen[g] => (mu.holder = g /\ mu.holder' = g)
            /\ (InCall(g)' /\ ~InCall(g)) => mu.holder' # g]_vars
    /\ [][lastNotificationTime' # lastNotificationTime
            => \E g \in Invocations :
                  /\ mu.holder = g /\ mu.holder' = g
                  /\ RunOf(g).pc \in {"locked_w", "locked_c"}]_vars

\* Invocation 1 holds the mutex and has written its entry while invocation
\* 2, which read the map before that write, is inside the sink.
C40_Witness ==
    /\ prRun.pc = "written" /\ mu.holder = 1
    /\ prRun.key \in DOMAIN lastNotificationTime
    /\ prRun2.pc = "send" /\ prRun2.key = prRun.key /\ ~mu.seen[2].ok

====
